---- MODULE Spec2Model ----
(***************************************************************************)
(* Model of the trading dashboard's scanner data pipeline:                 *)
(*   src/src/api/fmp.ts     the fundamentals cache client                  *)
(*   src/unnamed/part_000   the market snapshot client, the metric deriver *)
(*                          and the scanner pipeline (api/polygon.ts)      *)
(*                                                                         *)
(* JavaScript runs one synchronous segment at a time: every action below   *)
(* is one such segment (the code from one await's resumption to the next   *)
(* await), together with the microtasks it schedules.                      *)
(*                                                                         *)
(* Numbers.  Prices and volumes are whole numbers.  A value the code       *)
(* rounds with Math.round(x * 100) / 100 is kept as the integer x * 100    *)
(* (hundredths); an unrounded quotient is kept as a pair [n, d].           *)
(* Floating-point representation error is not modelled.                    *)
(* localStorage.setItem is taken to succeed (the quota error that          *)
(* setCache swallows is not modelled).                                     *)
(***************************************************************************)
EXTENDS Integers, Sequences, FiniteSets, TLC

VARIABLES
    FMP_KEY,        \* fmp.ts:3, whether VITE_FMP_API_KEY is configured
    localStorage,   \* the value stored under CACHE_KEY
    now,            \* Date.now(), in milliseconds
    ticks,          \* how many times the clock has advanced
    bcalls,         \* the activations of fetchProfilesBatch
    logged403,      \* part_000:187
    warnings,       \* how many times the plan-upgrade warning was logged
    nextError,      \* the identity the next error object gets
    lcalls,         \* the activations of fetchGainers and fetchLosers
    cycles,         \* the activations of fetchScannerData
    lookups,        \* the activations of handleSelectSymbol / fetchTickerSnapshot
    derive,         \* the last call of processPolygonTicker and what it returned
                    \* (prices, for the properties: the price of every record
                    \* of the chain so far)
    written,        \* for the properties: each symbol's last setCachedData
    work,           \* the calls started so far and the symbols they asked for
    budget,         \* how much work the callers may start in all
    app             \* App.tsx: the App component's state, refs and timers

vars == <<FMP_KEY, localStorage, now, ticks, bcalls, logged403, warnings, nextError,
          lcalls, cycles, lookups, derive, written, work, budget, app>>

fmpVars == <<FMP_KEY, budget, localStorage, now, ticks, bcalls, written>>

polygonVars == <<logged403, warnings, nextError, lcalls, cycles, lookups>>

(***************************************************************************)
(* Bounds of the model.                                                    *)
(***************************************************************************)
MaxWork == 4
MaxTicks == 2
MaxConcurrent == 2
MaxChain == 3
MaxListCalls == 3
MaxHistory == 15
MaxPipeline == 7
MaxSnapshot == 30
MaxApp == 6
MaxAlerts == 9
MaxHighlight == 11
MaxLog == 100
MaxRace == 8

Symbols == {"AAPL", "TSLA"}

(***************************************************************************)
(* Optional values (undefined / null) and JavaScript's x || y on numbers.  *)
(***************************************************************************)
None == << >>
Some(x) == <<x>>
IsSome(o) == o # << >>
Get(o) == o[1]

Or(a, b) == IF a # 0 THEN a ELSE b

Min(a, b) == IF a <= b THEN a ELSE b

Range(s) == {s[i] : i \in DOMAIN s}

EmptyMap == [s \in {} |-> None]

\* Map.set / obj[key] = value: the new binding replaces an older one
MapSet(m, k, v) == [s \in DOMAIN m \cup {k} |-> IF s = k THEN v ELSE m[s]]

(***************************************************************************)
(* fmp.ts: the cache                                                       *)
(***************************************************************************)
CACHE_EXPIRY == 24 * 60 * 60 * 1000

DELAY_MS == 200

\* What the fundamentals provider can answer with: data[0] of /profile
ApiProfiles ==
    { [floatShares |-> 15000000, marketCap |-> 0, sector |-> "", avgVolume |-> 100],
      [floatShares |-> 0, marketCap |-> 900, sector |-> "Tech", avgVolume |-> 0] }

\* fetchProfile, lines 105-111: the FloatData built from data[0]
ToFloatData(profile) ==
    [ float     |-> Or(profile.floatShares, 0),
      marketCap |-> Or(profile.marketCap, 0),
      sector    |-> IF profile.sector # "" THEN profile.sector ELSE "Unknown",
      avgVolume |-> Or(profile.avgVolume, 0) ]

\* JSON.stringify of a Cache: one member per symbol, its fields in order
JSONstringify(cache) ==
    { <<s, cache[s].data.float, cache[s].data.marketCap, cache[s].data.sector,
        cache[s].data.avgVolume, cache[s].timestamp>> : s \in DOMAIN cache }

\* JSON.parse of such a text
JSONparse(text) ==
    [ s \in {e[1] : e \in text} |->
        LET e == CHOOSE x \in text : x[1] = s
        IN  [ data |-> [float |-> e[2], marketCap |-> e[3], sector |-> e[4],
                        avgVolume |-> e[5]],
              timestamp |-> e[6] ] ]

\* The stored item: absent, text JSON.parse rejects, the text "null", the text
\* of a primitive (a number, a string, true), or the text of a Cache
StoredCache(cache) == [kind |-> "json", text |-> JSONstringify(cache)]

StoredOther(kind) == [kind |-> kind, text |-> {}]

\* getCache: the parsed item, {} when there is none or JSON.parse throws
getCache(ls) ==
    CASE ls.kind = "json"    -> [kind |-> "object", map |-> JSONparse(ls.text)]
      [] ls.kind = "null"    -> [kind |-> "null", map |-> EmptyMap]
      [] ls.kind = "prim"    -> [kind |-> "prim", map |-> EmptyMap]
      [] OTHER               -> [kind |-> "object", map |-> EmptyMap]

\* getCachedData with the comparison turned round: an entry counts once it is old
getCachedDataTurned(symbol, ls, t) ==
    LET cache == getCache(ls)
    IN  IF cache.kind = "null"
        THEN [throws |-> TRUE, value |-> None]
        ELSE IF /\ symbol \in DOMAIN cache.map
                /\ t - cache.map[symbol].timestamp > CACHE_EXPIRY
             THEN [throws |-> FALSE, value |-> Some(cache.map[symbol].data)]
             ELSE [throws |-> FALSE, value |-> None]

\* getCachedData with <= for <: an entry of exactly 24 hours still counts
getCachedDataInclusive(symbol, ls, t) ==
    LET cache == getCache(ls)
    IN  IF cache.kind = "null"
        THEN [throws |-> TRUE, value |-> None]
        ELSE IF /\ symbol \in DOMAIN cache.map
                /\ t - cache.map[symbol].timestamp <= CACHE_EXPIRY
             THEN [throws |-> FALSE, value |-> Some(cache.map[symbol].data)]
             ELSE [throws |-> FALSE, value |-> None]

\* getCachedData at time t: cache[symbol] throws a TypeError when the cache is null
getCachedData(symbol, ls, t) ==
    LET cache == getCache(ls)
    IN  IF cache.kind = "null"
        THEN [throws |-> TRUE, value |-> None]
        ELSE IF /\ symbol \in DOMAIN cache.map
                /\ t - cache.map[symbol].timestamp < CACHE_EXPIRY
             THEN [throws |-> FALSE, value |-> Some(cache.map[symbol].data)]
             ELSE [throws |-> FALSE, value |-> None]

\* setCachedData writing back a cache that has the one symbol alone
setCachedDataAlone(symbol, data, ls, t) ==
    LET cache == getCache(ls)
    IN  IF cache.kind # "object"
        THEN [throws |-> TRUE, ls |-> ls]
        ELSE [throws |-> FALSE,
              ls |-> StoredCache(MapSet(EmptyMap, symbol,
                                        [data |-> data, timestamp |-> t]))]

\* setCachedData at time t: cache[symbol] = ... throws a TypeError when the
\* parsed item is null or a primitive (module code is strict)
setCachedData(symbol, data, ls, t) ==
    LET cache == getCache(ls)
    IN  IF cache.kind # "object"
        THEN [throws |-> TRUE, ls |-> ls]
        ELSE [throws |-> FALSE,
              ls |-> StoredCache(MapSet(cache.map, symbol,
                                        [data |-> data, timestamp |-> t]))]

\* cleanCache at time t
cleanCacheResult(ls, t) ==
    LET cache == getCache(ls)
        kept  == {s \in DOMAIN cache.map : ~(t - cache.map[s].timestamp > CACHE_EXPIRY)}
    IN  IF cache.kind = "null" \/ kept = DOMAIN cache.map
        THEN ls
        ELSE StoredCache([s \in kept |-> cache.map[s]])

(***************************************************************************)
(* fmp.ts: fetchProfile and fetchProfilesBatch                             *)
(***************************************************************************)
\* What one GET /profile can end as: fetch rejects, a non-2xx status, a 2xx
\* status with an empty list, a 2xx status with a profile
FmpResponses ==
    { [kind |-> "exception", ok |-> FALSE, data |-> << >>],
      [kind |-> "response", ok |-> FALSE, data |-> << >>],
      [kind |-> "response", ok |-> TRUE, data |-> << >>] }
    \cup { [kind |-> "response", ok |-> TRUE, data |-> <<p>>] : p \in ApiProfiles }

\* The batches cut one too long: toFetch.slice(i, i + maxConcurrent + 1)
RECURSIVE BatchesFromOverlap(_, _, _)
BatchesFromOverlap(toFetch, maxConcurrent, i) ==
    IF i < Len(toFetch)
    THEN <<SubSeq(toFetch, i + 1, Min(i + maxConcurrent + 1, Len(toFetch)))>>
         \o BatchesFromOverlap(toFetch, maxConcurrent, i + maxConcurrent)
    ELSE << >>

\* fetchProfilesBatch, lines 153-156: toFetch.slice(i, i + maxConcurrent) for
\* i = 0, maxConcurrent, 2 * maxConcurrent, ... (i counts from 0)
RECURSIVE BatchesFrom(_, _, _)
BatchesFrom(toFetch, maxConcurrent, i) ==
    IF i < Len(toFetch)
    THEN <<SubSeq(toFetch, i + 1, Min(i + maxConcurrent, Len(toFetch)))>>
         \o BatchesFrom(toFetch, maxConcurrent, i + maxConcurrent)
    ELSE << >>

\* fetchProfilesBatch, lines 166-171, once Promise.all has resolved for the
\* batch c.group: the 200 ms timer unless the batch is the last, else the return.
\* batches.indexOf(batch) finds the batch by identity, which is its position.
FinishGroup(c, t) ==
    IF c.group - 1 < Len(c.batches) - 1
    THEN [c EXCEPT !.phase = "delay", !.due = t + DELAY_MS, !.delays = @ + 1]
    ELSE [c EXCEPT !.phase = "resolved"]

\* fetchProfilesBatch, lines 158-166: batch g is mapped over fetchProfile, which
\* runs up to its first await: a cache hit resolves at once, a miss has issued
\* its request.  getCachedData throwing rejects fetchProfile and so Promise.all.
BeginGroup(c, g, ls, t) ==
    LET batch  == c.batches[g]
        look   == [j \in DOMAIN batch |-> getCachedData(batch[j], ls, t)]
        hits   == {j \in DOMAIN batch : IsSome(look[j].value)}
        misses == DOMAIN batch \ hits
        hitSym == {batch[j] : j \in hits}
        c1     == [c EXCEPT
                     !.group = g,
                     !.phase = "fetching",
                     !.inflight = misses,
                     !.requested = @ \cup {<<g, j>> : j \in misses},
                     !.results = [s \in DOMAIN c.results \cup hitSym |->
                                    IF s \in hitSym
                                    THEN Get(getCachedData(s, ls, t).value)
                                    ELSE c.results[s]],
                     !.outcome = @ \cup {[g |-> g, j |-> j, symbol |-> batch[j],
                                          kind |-> "cached"] : j \in hits}]
    IN  IF \E j \in DOMAIN batch : look[j].throws
        THEN [c EXCEPT !.group = g, !.phase = "rejected"]
        ELSE IF misses = {} THEN FinishGroup(c1, t) ELSE c1

\* fetchProfilesBatch, lines 129-156 and the first batch: the call up to its
\* first await.  Kept for the properties, not by the code: fresh (the stored
\* members of the requested symbols younger than CACHE_EXPIRY at the call),
\* requested (the requests issued), outcome (how each fetchProfile ended) and
\* delays (the timers set).
BatchStart(symbols, maxConcurrent, owner, ls, t) ==
    LET look    == [i \in DOMAIN symbols |-> getCachedData(symbols[i], ls, t)]
        hitSym  == {symbols[i] : i \in {k \in DOMAIN symbols : IsSome(look[k].value)}}
        toFetch == SelectSeq(symbols, LAMBDA s : ~IsSome(getCachedData(s, ls, t).value))
        c0 == [ symbols   |-> symbols,
                n         |-> maxConcurrent,
                owner     |-> owner,
                phase     |-> "resolved",
                toFetch   |-> << >>,
                batches   |-> << >>,
                results   |-> EmptyMap,
                group     |-> 0,
                inflight  |-> {},
                due       |-> 0,
                fresh     |-> {e \in ls.text : e[1] \in Range(symbols)
                                                  /\ t - e[6] < CACHE_EXPIRY},
                requested |-> {},
                outcome   |-> {},
                delays    |-> 0 ]
        c1 == [c0 EXCEPT
                 !.toFetch = toFetch,
                 !.batches = BatchesFrom(toFetch, maxConcurrent, 0),
                 !.results = [s \in hitSym |-> Get(getCachedData(s, ls, t).value)]]
    IN  IF ~FMP_KEY THEN c0
        ELSE IF \E i \in DOMAIN symbols : look[i].throws
             THEN [c0 EXCEPT !.phase = "rejected"]
             ELSE IF Len(c1.batches) = 0 THEN c1
                  ELSE BeginGroup(c1, 1, ls, t)

\* fetchProfile without its checks of response.ok and of an empty list: a
\* record of defaults is made of whatever came
ProfileSettleUnchecked(symbol, resp, ls, t) ==
    LET profile   == IF resp.kind = "response" /\ resp.ok /\ Len(resp.data) > 0
                     THEN resp.data[1]
                     ELSE [floatShares |-> 0, marketCap |-> 0, sector |-> "", avgVolume |-> 0]
        floatData == ToFloatData(profile)
        w         == setCachedData(symbol, floatData, ls, t)
    IN  IF resp.kind = "exception" \/ w.throws
        THEN [value |-> None, ls |-> ls, kind |-> "failed"]
        ELSE [value |-> Some(floatData), ls |-> w.ls,
              kind |-> IF ~resp.ok THEN "failed"
                       ELSE IF Len(resp.data) = 0 THEN "empty" ELSE "fetched"]

\* fetchProfile, lines 92-122, from the await of fetch on, for the request of
\* position j of the current batch: what it resolves to and the cache it leaves
ProfileSettle(symbol, resp, ls, t) ==
    IF resp.kind = "exception" \/ ~resp.ok
    THEN [value |-> None, ls |-> ls, kind |-> "failed"]
    ELSE IF Len(resp.data) = 0
         THEN [value |-> None, ls |-> ls, kind |-> "empty"]
         ELSE LET floatData == ToFloatData(resp.data[1])
                  w == setCachedData(symbol, floatData, ls, t)
              IN  IF w.throws
                  THEN [value |-> None, ls |-> ls, kind |-> "failed"]
                  ELSE [value |-> Some(floatData), ls |-> w.ls, kind |-> "fetched"]

\* fetchProfilesBatch, lines 159-166: one request of the current batch settles
BatchSettle(c, j, resp, ls, t) ==
    LET symbol == c.batches[c.group][j]
        r      == ProfileSettle(symbol, resp, ls, t)
        c1     == [c EXCEPT
                     !.inflight = @ \ {j},
                     !.results = IF IsSome(r.value)
                                 THEN MapSet(c.results, symbol, Get(r.value))
                                 ELSE c.results,
                     !.outcome = @ \cup {[g |-> c.group, j |-> j, symbol |-> symbol,
                                          kind |-> r.kind]}]
    IN  IF c1.inflight = {} /\ c.phase = "fetching" THEN FinishGroup(c1, t) ELSE c1

(***************************************************************************)
(* part_000 (api/polygon.ts): the metric deriver                           *)
(*                                                                         *)
(* A PolygonTicker is [ticker, todaysChangePerc, day, prevDay]: day and    *)
(* prevDay are optional (the code reads them with ?.), a missing number is *)
(* 0 (both are falsy), todaysChangePerc is in thousandths of a percent.    *)
(* Of a ProcessedStock the constant fields (companyName, exchange,         *)
(* high52w, low52w) and the clock text (time) are left out; gapPercent,    *)
(* changePercent, vwapDistance and rVol are in hundredths, vwap, prevRVol  *)
(* and prevChangePercent are quotients [n, d].                             *)
(***************************************************************************)
\* Math.round(n / d) for d > 0: halves round up
Round(n, d) == (2 * n + d) \div (2 * d)

\* ticker.day?.f and ticker.prevDay?.f as numbers, 0 when there is none
DayField(ticker, f) == IF IsSome(ticker.day) THEN Get(ticker.day)[f] ELSE 0

PrevDayField(ticker, f) == IF IsSome(ticker.prevDay) THEN Get(ticker.prevDay)[f] ELSE 0

\* avgVol without the fallback to 1: floatData?.avgVolume || ticker.prevDay?.v
AvgVolNoFallback(ticker, floatData) ==
    Or(IF IsSome(floatData) THEN Get(floatData).avgVolume ELSE 0, PrevDayField(ticker, "v"))

\* processPolygonTicker, lines 226-234: the denominator avgVol and rVol
AvgVol(ticker, floatData) ==
    LET prevDayVolume == Or(PrevDayField(ticker, "v"), 1)
    IN  Or(IF IsSome(floatData) THEN Get(floatData).avgVolume ELSE 0, prevDayVolume)

RVol(ticker, floatData) ==
    LET volume == Or(DayField(ticker, "v"), 0)
        avgVol == AvgVol(ticker, floatData)
    IN  IF avgVol > 0 THEN [n |-> volume, d |-> avgVol] ELSE [n |-> 1, d |-> 1]

\* getStrategy, lines 161-181: the tags pushed, in order.  The first tag's
\* text starts with an emoji in the source.
StrategyTags(stock) ==
    LET float    == Or(stock.float, 0)
        rVol     == Or(stock.rVol, 0)
        gap      == Or(stock.gapPercent, 0)
        change   == Or(stock.changePercent, 0)
        price    == Or(stock.price, 0)
        vwapDist == Or(stock.vwapDistance, 0)
        isPerfect == /\ float > 0 /\ float < 20000000 /\ gap >= 400
                     /\ price >= 1 /\ price <= 20 /\ rVol >= 500
        t1 == IF isPerfect THEN <<"Perfect Setup">> ELSE << >>
        t2 == IF float > 0 /\ float < 10000000 /\ rVol > 500
              THEN Append(t1, "Low Float Runner") ELSE t1
        t3 == IF gap > 2000 THEN Append(t2, "Squeeze Alert") ELSE t2
        t4 == IF vwapDist > -200 /\ vwapDist < 200 /\ change > 300
              THEN Append(t3, "VWAP Reclaim") ELSE t3
        t5 == IF 100 * price >= 99 * Or(stock.dayHigh, 0) /\ change > 0
              THEN Append(t4, "HOD Break") ELSE t4
        t6 == IF gap > 1000 /\ rVol > 300 THEN Append(t5, "Gap & Go") ELSE t5
        t7 == IF Len(t6) = 0 /\ change > 500 THEN Append(t6, "Momentum") ELSE t6
    IN  IF Len(t7) = 0 THEN Append(t7, "In Play") ELSE t7

\* getStrategy returning tags itself
getStrategyNoSlice(stock) == StrategyTags(stock)

\* getStrategy keeping the last three tags: tags.slice(-3)
getStrategyLastThree(stock) ==
    LET tags == StrategyTags(stock)
    IN  IF Len(tags) > 3 THEN SubSeq(tags, Len(tags) - 2, Len(tags)) ELSE tags

\* getStrategy, line 183: tags.slice(0, 3)
getStrategy(stock) ==
    LET tags == StrategyTags(stock)
    IN  SubSeq(tags, 1, Min(3, Len(tags)))

\* The history cut from the wrong end: [...history, price].slice(0, 10)
LastTenFromStart(history) ==
    IF Len(history) > 10 THEN SubSeq(history, 1, 10) ELSE history

\* [...history, price].slice(-10)
LastTen(history) ==
    IF Len(history) > 10 THEN SubSeq(history, Len(history) - 9, Len(history)) ELSE history

\* processPolygonTicker, lines 218-272
processPolygonTicker(ticker, prevData, floatData) ==
    LET price         == Or(DayField(ticker, "c"), Or(PrevDayField(ticker, "c"), 0))
        prevDayClose  == Or(PrevDayField(ticker, "c"), price)
        dayOpen       == Or(DayField(ticker, "o"), prevDayClose)
        volume        == Or(DayField(ticker, "v"), 0)
        prevDayVolume == Or(PrevDayField(ticker, "v"), 1)
        hlc           == DayField(ticker, "h") + DayField(ticker, "l") + DayField(ticker, "c")
        vwap          == IF DayField(ticker, "vw") # 0
                         THEN [n |-> DayField(ticker, "vw"), d |-> 1]
                         ELSE IF IsSome(ticker.day) /\ hlc # 0
                              THEN [n |-> hlc, d |-> 3]
                              ELSE [n |-> price, d |-> 1]
        gapPercent    == IF prevDayClose > 0
                         THEN Round(10000 * (dayOpen - prevDayClose), prevDayClose)
                         ELSE 0
        rVol          == RVol(ticker, floatData)
        vwapDistance  == IF vwap.n > 0
                         THEN Round(10000 * (price * vwap.d - vwap.n), vwap.n)
                         ELSE 0
        prev          == IF IsSome(prevData) THEN Get(prevData) ELSE [price |-> 0]
        fd            == IF IsSome(floatData) THEN Get(floatData)
                         ELSE [float |-> 0, marketCap |-> 0, sector |-> "", avgVolume |-> 0]
        stock ==
          [ symbol            |-> ticker.ticker,
            price             |-> price,
            prevPrice         |-> IF IsSome(prevData) THEN Or(prev.price, price) ELSE price,
            dayHigh           |-> Or(DayField(ticker, "h"), price),
            dayLow            |-> Or(DayField(ticker, "l"), price),
            dayOpen           |-> dayOpen,
            volume            |-> volume,
            float             |-> Or(fd.float, IF IsSome(prevData) THEN Or(prev.float, 0) ELSE 0),
            marketCap         |-> Or(fd.marketCap,
                                     IF IsSome(prevData) THEN Or(prev.marketCap, 0) ELSE 0),
            sector            |-> IF fd.sector # "" THEN fd.sector
                                  ELSE IF IsSome(prevData) THEN prev.sector ELSE "",
            rVol              |-> Round(100 * rVol.n, rVol.d),
            prevRVol          |-> IF IsSome(prevData) /\ prev.rVol # 0
                                  THEN [n |-> prev.rVol, d |-> 100] ELSE rVol,
            gapPercent        |-> gapPercent,
            changePercent     |-> Round(ticker.todaysChangePerc, 10),
            prevChangePercent |-> IF IsSome(prevData) /\ prev.changePercent # 0
                                  THEN [n |-> prev.changePercent, d |-> 100]
                                  ELSE [n |-> ticker.todaysChangePerc, d |-> 1000],
            vwap              |-> vwap,
            vwapDistance      |-> vwapDistance,
            strategy          |-> << >>,
            prevDayClose      |-> prevDayClose,
            prevDayVolume     |-> prevDayVolume,
            isNew             |-> ~IsSome(prevData),
            priceHistory      |-> IF IsSome(prevData)
                                  THEN LastTen(Append(prev.priceHistory, price))
                                  ELSE <<price>> ]
    IN  [stock EXCEPT !.strategy = getStrategy(stock)]

\* matchesCriteria passing on float only the records without float data
matchesCriteriaNoFloatOnly(stock) ==
    /\ stock.gapPercent >= 400
    /\ stock.price >= 1
    /\ stock.price <= 20
    /\ stock.rVol >= 500
    /\ stock.float = 0

\* matchesCriteria, lines 336-344
matchesCriteria(stock) ==
    /\ stock.gapPercent >= 400
    /\ stock.price >= 1
    /\ stock.price <= 20
    /\ stock.rVol >= 500
    /\ (stock.float = 0 \/ stock.float < 20000000)

(***************************************************************************)
(* part_000 (api/polygon.ts): the snapshot client and the scanner pipeline *)
(***************************************************************************)
\* An error object: id tells one object from another
ErrorObject(id, name, status) == [id |-> id, name |-> name, status |-> status]

\* The TypeError of reading a property of null (getCachedData on a null cache)
CacheTypeError == ErrorObject(0, "TypeError", 0)

\* response.ok
ResponseOk(resp) == resp.status >= 200 /\ resp.status <= 299

\* fetchGainers, lines 189-201, from the await of fetch on.  logged is
\* logged403, id the identity a newly made error object gets.
fetchGainers(resp, logged, id) ==
    IF resp.kind = "exception"
    THEN [threw |-> TRUE, error |-> Some(ErrorObject(id, "TypeError", 0)),
          tickers |-> << >>, logged403 |-> logged, warned |-> FALSE]
    ELSE IF resp.status = 403
         THEN [threw |-> TRUE, error |-> Some(ErrorObject(id, "PolygonUpgradeError", 403)),
               tickers |-> << >>, logged403 |-> TRUE, warned |-> ~logged]
         ELSE IF ~ResponseOk(resp)
              THEN [threw |-> TRUE, error |-> Some(ErrorObject(id, "Error", resp.status)),
                    tickers |-> << >>, logged403 |-> logged, warned |-> FALSE]
              ELSE [threw |-> FALSE, error |-> None,
                    tickers |-> resp.tickers, logged403 |-> logged, warned |-> FALSE]

\* fetchLosers warning on every 403, whatever logged403 is
fetchLosersAlwaysWarns(resp, logged, id) ==
    IF resp.kind = "response" /\ resp.status = 403
    THEN [fetchGainers(resp, logged, id) EXCEPT !.warned = TRUE]
    ELSE fetchGainers(resp, logged, id)

\* fetchLosers, lines 203-215, from the await of fetch on
fetchLosers(resp, logged, id) ==
    IF resp.kind = "exception"
    THEN [threw |-> TRUE, error |-> Some(ErrorObject(id, "TypeError", 0)),
          tickers |-> << >>, logged403 |-> logged, warned |-> FALSE]
    ELSE IF resp.status = 403
         THEN [threw |-> TRUE, error |-> Some(ErrorObject(id, "PolygonUpgradeError", 403)),
               tickers |-> << >>, logged403 |-> TRUE, warned |-> ~logged]
         ELSE IF ~ResponseOk(resp)
              THEN [threw |-> TRUE, error |-> Some(ErrorObject(id, "Error", resp.status)),
                    tickers |-> << >>, logged403 |-> logged, warned |-> FALSE]
              ELSE [threw |-> FALSE, error |-> None,
                    tickers |-> resp.tickers, logged403 |-> logged, warned |-> FALSE]

\* The comparison turned round, (a, b) => a.key - b.key: ascending
SortAscBy(seq, key) ==
    LET pos(i) == 1 + Cardinality({j \in DOMAIN seq :
                        \/ seq[j][key] < seq[i][key]
                        \/ seq[j][key] = seq[i][key] /\ j < i})
    IN  [p \in DOMAIN seq |-> seq[CHOOSE i \in DOMAIN seq : pos(i) = p]]

\* Array.prototype.sort((a, b) => b.key - a.key): descending by the field key,
\* and stable
SortDescBy(seq, key) ==
    LET pos(i) == 1 + Cardinality({j \in DOMAIN seq :
                        \/ seq[j][key] > seq[i][key]
                        \/ seq[j][key] = seq[i][key] /\ j < i})
    IN  [p \in DOMAIN seq |-> seq[CHOOSE i \in DOMAIN seq : pos(i) = p]]

\* .slice(0, 25)
Top25(seq) == SubSeq(seq, 1, Min(25, Len(seq)))

\* A view without the fallback to the first 25 valid records
ScannerViewNoFallback(validStocks, key, above) ==
    Top25(SortDescBy(SelectSeq(validStocks, LAMBDA x : x[key] > above), key))

\* fetchScannerData, lines 306-326: one view
ScannerView(validStocks, key, above) ==
    LET view == Top25(SortDescBy(SelectSeq(validStocks, LAMBDA x : x[key] > above), key))
    IN  IF Len(view) > 0 THEN view ELSE Top25(validStocks)

\* prevLookup left empty: no ticker has a previous record
PrevLookupEmpty(prevData, symbol) == None

\* fetchScannerData, lines 287-292: prevLookup.get(symbol), the last record set
PrevLookup(prevData, symbol) ==
    IF ~IsSome(prevData) THEN None
    ELSE LET all  == Get(prevData).gappers \o Get(prevData).momentum \o Get(prevData).highRvol
             hits == {i \in DOMAIN all : all[i].symbol = symbol}
         IN  IF hits = {} THEN None
             ELSE Some(all[CHOOSE i \in hits : \A j \in hits : j <= i])

\* fetchScannerData, lines 298-328, once fetchProfilesBatch has resolved
ScannerResult(gainers, prevData, floatMap) ==
    LET processed == [i \in DOMAIN gainers |->
                        processPolygonTicker(
                          gainers[i],
                          PrevLookup(prevData, gainers[i].ticker),
                          IF gainers[i].ticker \in DOMAIN floatMap
                          THEN Some(floatMap[gainers[i].ticker]) ELSE None)]
        validStocks == SelectSeq(processed, LAMBDA x : x.price > 0 /\ x.volume > 0)
    IN  [ gappers  |-> ScannerView(validStocks, "gapPercent", 400),
          momentum |-> ScannerView(validStocks, "changePercent", 500),
          highRvol |-> ScannerView(validStocks, "rVol", 150),
          status   |-> "delayed" ]

\* fetchScannerData whose catch throws a new Error made from the one it caught
ScannerAfterGainersWraps(cy, g, bcall) ==
    IF g.threw
    THEN [cy EXCEPT !.pc = "rejected", !.error = Some(ErrorObject(0, "Error", 0))]
    ELSE [cy EXCEPT !.pc = "profiles", !.gainers = g.tickers, !.bcall = bcall]

\* fetchScannerData, lines 283-297 and 329-332, when fetchGainers has settled as
\* g: the catch rethrows the error it caught; else fetchProfilesBatch(symbols, 5)
\* is called, as the activation number bcall
ScannerAfterGainers(cy, g, bcall) ==
    IF g.threw
    THEN [cy EXCEPT !.pc = "rejected", !.error = g.error]
    ELSE [cy EXCEPT !.pc = "profiles", !.gainers = g.tickers, !.bcall = bcall]

\* fetchScannerData, lines 296-332, when its fetchProfilesBatch has settled
ScannerResume(cy, bcs) ==
    IF cy.pc # "profiles" THEN cy
    ELSE IF bcs[cy.bcall].phase = "resolved"
         THEN [cy EXCEPT !.pc = "resolved",
                         !.result = Some(ScannerResult(cy.gainers, cy.prevData,
                                                       bcs[cy.bcall].results))]
         ELSE IF bcs[cy.bcall].phase = "rejected"
              THEN [cy EXCEPT !.pc = "rejected", !.error = Some(CacheTypeError)]
              ELSE cy

\* fetchTickerSnapshot, lines 394-420 and 430-433, when fetch has settled: what
\* it returns at once, or the ticker it goes on with
fetchTickerSnapshot(resp) ==
    IF resp.kind = "exception"
    THEN [kind |-> "null", ticker |-> None]
    ELSE IF ~ResponseOk(resp)
         THEN IF resp.status = 404
              THEN [kind |-> "null", ticker |-> None]
              ELSE [kind |-> "null", ticker |-> None]
         ELSE IF Len(resp.tickers) = 0
              THEN [kind |-> "null", ticker |-> None]
              ELSE [kind |-> "ticker", ticker |-> Some(resp.tickers[1])]

\* handleSelectSymbol (StockSearch), fmp.ts lines 318-330: what the search box
\* shows for what fetchTickerSnapshot did
handleSelectSymbol(returned) ==
    IF returned.kind = "threw" THEN "Failed to fetch quote"
    ELSE IF returned.kind = "stock" THEN ""
         ELSE "Symbol not found"

\* fetchTickerSnapshot, lines 423-433, when its fetchProfilesBatch has settled,
\* and handleSelectSymbol after it
LookupResume(lk, bcs) ==
    IF lk.pc # "profiles" THEN lk
    ELSE IF bcs[lk.bcall].phase = "resolved"
         THEN LET floatMap == bcs[lk.bcall].results
                  ticker   == Get(lk.ticker)
                  ret == [kind |-> "stock",
                          stock |-> Some(processPolygonTicker(
                                      ticker, None,
                                      IF ticker.ticker \in DOMAIN floatMap
                                      THEN Some(floatMap[ticker.ticker]) ELSE None))]
              IN  [lk EXCEPT !.pc = "done", !.returned = ret,
                             !.error = handleSelectSymbol(ret)]
         ELSE IF bcs[lk.bcall].phase = "rejected"
              THEN [lk EXCEPT !.pc = "done",
                              !.returned = [kind |-> "null", stock |-> None],
                              !.error = handleSelectSymbol([kind |-> "null"])]
              ELSE lk

(***************************************************************************)
(* App.tsx: the App component.  One action is one event handler, timer     *)
(* callback or promise continuation, with the state updates it batches,    *)
(* the render that follows and the effects that render runs.               *)
(***************************************************************************)
\* A caller invokes fetchGainers() or fetchLosers().  status is kept for the
\* properties: the status the request was answered with (0: fetch rejected).
NewListCall(fn, owner) ==
    [fn |-> fn, state |-> "pending", error |-> None, owner |-> owner, status |-> -1]

\* fetchScannerData(prevData) up to its await of fetchGainers, the request
\* being the activation number lcall
NewCycle(prevData, lcall) ==
    [ prevData |-> prevData, pc |-> "gainers", lcall |-> lcall, bcall |-> 0,
      gainers |-> << >>, error |-> None, result |-> None ]

\* line 601, the delay after which a cycle's alert highlights are taken back
ALERT_EXPIRY_MS == 30000

\* line 639, the polling period
POLL_MS == 60000

DEFAULT_ALERT_SETTINGS == [changeThreshold |-> 3, rvolThreshold |-> 10]

\* generateMockStock: the fields of a mock record that the component reads
\* (percentages and relative volume in hundredths, as everywhere)
MockStock(symbol, price, gapPercent, changePercent, rVol) ==
    [ symbol |-> symbol, price |-> price, prevPrice |-> price, volume |-> 500000,
      float |-> 2000000, rVol |-> rVol, prevRVol |-> [n |-> rVol, d |-> 100],
      gapPercent |-> gapPercent, changePercent |-> changePercent,
      prevChangePercent |-> [n |-> changePercent, d |-> 100],
      strategy |-> IF gapPercent > 1000 THEN <<"Gap & Go">> ELSE <<"Momentum">>,
      priceHistory |-> [i \in 1..10 |-> price] ]

\* generateMockData: the random draw, here one over the mock symbols that the
\* quotes provider also knows
MockDraws ==
    { <<MockStock("TSLA", 30, 200, 1500, 100), MockStock("AAPL", 10, 4000, -500, 2500)>> }

generateMockData(draw) ==
    [ gen      |-> 0,
      gappers  |-> SortDescBy(draw, "gapPercent"),
      momentum |-> SortDescBy(draw, "changePercent"),
      highRvol |-> SortDescBy(draw, "rVol") ]

Views(data) == [gappers |-> data.gappers, momentum |-> data.momentum, highRvol |-> data.highRvol]

\* What the last fetchData continuation did, for the properties
NoSettle == [fetch |-> 0, ok |-> FALSE, compared |-> FALSE, prev |-> None,
             raised |-> << >>, sounds |-> 0]

\* A component whose previous-cycle reference starts as the mock data
AppConstructedMockBaseline(draw, watchlist) ==
    [ mounted          |-> FALSE,
      stocks           |-> generateMockData(draw),
      apiStatus        |-> "offline",
      isLoading        |-> FALSE,
      selected         |-> None,
      selectedIndex    |-> -1,
      alerts           |-> << >>,
      alertedSymbols   |-> {},
      unreadAlertCount |-> 0,
      newMoversCount   |-> 0,
      soundEnabled     |-> TRUE,
      watchlist        |-> watchlist,
      prevStocksRef    |-> Some(Views(generateMockData(draw))),
      isFirstRender    |-> FALSE,
      interval         |-> None,
      timeouts         |-> {},
      fetches          |-> << >>,
      last             |-> NoSettle,
      log              |-> << >> ]

\* The component as its first render leaves it, lines 336-398: the state
\* (stocks.gen and selected.gen tell the objects of one cycle from those of
\* another), the refs, the polling interval, the pending alert timeouts and
\* the activations of fetchData; for the properties, last and log: every
\* alert raised so far, the newest first
AppConstructed(draw, watchlist) ==
    [ mounted          |-> FALSE,
      stocks           |-> generateMockData(draw),
      apiStatus        |-> "offline",
      isLoading        |-> FALSE,
      selected         |-> None,
      selectedIndex    |-> -1,
      alerts           |-> << >>,
      alertedSymbols   |-> {},
      unreadAlertCount |-> 0,
      newMoversCount   |-> 0,
      soundEnabled     |-> TRUE,
      watchlist        |-> watchlist,
      prevStocksRef    |-> None,
      isFirstRender    |-> TRUE,
      interval         |-> None,
      timeouts         |-> {},
      fetches          |-> << >>,
      last             |-> NoSettle,
      log              |-> << >> ]

AllStocks(views) == views.gappers \o views.momentum \o views.highRvol

\* Array.prototype.find by symbol
FindSymbol(seq, symbol) ==
    LET hits == {i \in DOMAIN seq : seq[i].symbol = symbol}
    IN  IF hits = {} THEN None ELSE Some(seq[CHOOSE i \in hits : \A j \in hits : i <= j])

\* lines 499-506 with the tab, the sort and the filter as the component sets
\* them out: the gappers, by gap, descending
filteredStocks(a) == SortDescBy(a.stocks.gappers, "gapPercent")

\* fetchData starting its cycle without a baseline
FetchDataCallNoBaseline(a, origin) ==
    [a EXCEPT !.isLoading = TRUE,
              !.fetches = Append(@, [ cycle          |-> Len(cycles) + 1
                                                         + Len(a.fetches) - Len(app.fetches),
                                      origin         |-> origin,
                                      prevData       |-> None,
                                      selected       |-> a.selected,
                                      alertedSymbols |-> a.alertedSymbols,
                                      soundEnabled   |-> a.soundEnabled,
                                      state          |-> "awaiting" ])]

\* fetchData, lines 513-524, up to its await: the activation keeps the state
\* the callback was made with (selected, alertedSymbols, soundEnabled) and
\* starts the fetchScannerData that comes after those already started
FetchDataCall(a, origin) ==
    [a EXCEPT !.isLoading = TRUE,
              !.fetches = Append(@, [ cycle          |-> Len(cycles) + 1
                                                         + Len(a.fetches) - Len(app.fetches),
                                      origin         |-> origin,
                                      prevData       |-> a.prevStocksRef,
                                      selected       |-> a.selected,
                                      alertedSymbols |-> a.alertedSymbols,
                                      soundEnabled   |-> a.soundEnabled,
                                      state          |-> "awaiting" ])]

\* The polling effect, lines 637-641, when it runs: the cleanup of its last
\* run has cleared the interval; it calls fetchData and sets a new interval
PollingEffect(a, origin) ==
    [FetchDataCall(a, origin) EXCEPT !.interval = Some(now + POLL_MS)]

\* The render after a batch of updates and the effects it runs, in the order
\* of the source: the polling effect when fetchData is a new callback (one of
\* its dependencies changed, line 634; alertedSet: setAlertedSymbols was given
\* a new Set), then lines 693-697 when selectedIndex or filteredStocks
\* changed; the setSelected of that effect gives one more render, and one
\* more run of the polling effect when selected is another object
Commit(before, after, alertedSet) ==
    LET fetchDataChanged == \/ after.selected # before.selected
                            \/ alertedSet
                            \/ after.soundEnabled # before.soundEnabled
        r1  == IF fetchDataChanged THEN PollingEffect(after, "effect") ELSE after
        fs  == filteredStocks(after)
        idx == after.selectedIndex
        reselects == /\ \/ idx # before.selectedIndex
                        \/ after.stocks.gen # before.stocks.gen
                     /\ idx >= 0
                     /\ idx + 1 \in DOMAIN fs
        sel == IF reselects THEN Some([gen |-> after.stocks.gen, stock |-> fs[idx + 1]])
               ELSE after.selected
        r2  == [r1 EXCEPT !.selected = sel]
    IN  IF sel # after.selected THEN PollingEffect(r2, "effect") ELSE r2

\* The alerts of a record, the newMover alert raised whether it qualifies or not
AlertsForAnyNew(stock, prev, timestamp) ==
    LET prevAll   == AllStocks(prev)
        prevStock == FindSymbol(prevAll, stock.symbol)
        settings  == DEFAULT_ALERT_SETTINGS
        alert(tag, type) == [id |-> <<stock.symbol, tag, timestamp>>,
                             symbol |-> stock.symbol, type |-> type,
                             timestamp |-> timestamp]
        newMover  == IF ~IsSome(prevStock)
                     THEN <<alert("new", "newMover")>> ELSE << >>
        was       == Get(prevStock)
        \* changePercent - prevChangePercent > changeThreshold
        breakout  == IF /\ IsSome(prevStock)
                        /\ stock.changePercent * was.prevChangePercent.d
                             - 100 * was.prevChangePercent.n
                           > 100 * settings.changeThreshold * was.prevChangePercent.d
                     THEN <<alert("spike", "breakout")>> ELSE << >>
        volumeSpike == IF /\ IsSome(prevStock)
                          /\ stock.rVol >= 100 * settings.rvolThreshold
                          /\ was.prevRVol.n < settings.rvolThreshold * was.prevRVol.d
                       THEN <<alert("rvol", "volumeSpike")>> ELSE << >>
    IN  newMover \o breakout \o volumeSpike

\* lines 561-584: the alerts one record of the new views raises against the
\* previous views
AlertsFor(stock, prev, timestamp) ==
    LET prevAll   == AllStocks(prev)
        prevStock == FindSymbol(prevAll, stock.symbol)
        settings  == DEFAULT_ALERT_SETTINGS
        alert(tag, type) == [id |-> <<stock.symbol, tag, timestamp>>,
                             symbol |-> stock.symbol, type |-> type,
                             timestamp |-> timestamp]
        newMover  == IF ~IsSome(prevStock) /\ matchesCriteria(stock)
                     THEN <<alert("new", "newMover")>> ELSE << >>
        was       == Get(prevStock)
        \* changePercent - prevChangePercent > changeThreshold
        breakout  == IF /\ IsSome(prevStock)
                        /\ stock.changePercent * was.prevChangePercent.d
                             - 100 * was.prevChangePercent.n
                           > 100 * settings.changeThreshold * was.prevChangePercent.d
                     THEN <<alert("spike", "breakout")>> ELSE << >>
        volumeSpike == IF /\ IsSome(prevStock)
                          /\ stock.rVol >= 100 * settings.rvolThreshold
                          /\ was.prevRVol.n < settings.rvolThreshold * was.prevRVol.d
                       THEN <<alert("rvol", "volumeSpike")>> ELSE << >>
    IN  newMover \o breakout \o volumeSpike

\* allNewStocks.forEach(...), lines 561-584
RECURSIVE NewAlerts(_, _, _)
NewAlerts(allNewStocks, prev, timestamp) ==
    IF allNewStocks = << >> THEN << >>
    ELSE AlertsFor(Head(allNewStocks), prev, timestamp)
           \o NewAlerts(Tail(allNewStocks), prev, timestamp)

\* .slice(-30): the last 30
First30FromEnd(seq) == SubSeq(seq, Len(seq) - Min(30, Len(seq)) + 1, Len(seq))

\* .slice(0, 30)
First30(seq) == SubSeq(seq, 1, Min(30, Len(seq)))

\* lines 620-626
WatchlistUpdate(watchlist, allNewStocks) ==
    [i \in DOMAIN watchlist |->
       LET stock == FindSymbol(allNewStocks, watchlist[i].symbol)
       IN  IF IsSome(stock)
           THEN [watchlist[i] EXCEPT
                   !.priceHistory = LastTen(Append(@, Get(stock).price))]
           ELSE watchlist[i]]

\* fetchData, lines 525-627 and 631-633, once fetchScannerData has resolved
\* with data for its activation f: the batch of updates (setFlashMap and
\* setLastUpdate, which only paint, are left out)
FetchDataResolved(a, f, data) ==
    LET fd           == a.fetches[f]
        allNewStocks == AllStocks(data)
        compared     == ~a.isFirstRender /\ IsSome(a.prevStocksRef)
        newAlerts    == IF compared THEN NewAlerts(allNewStocks, Get(a.prevStocksRef), now)
                        ELSE << >>
        newMovers    == Len(SelectSeq(newAlerts, LAMBDA x : x.type = "newMover"))
        symbols      == {newAlerts[i].symbol : i \in DOMAIN newAlerts}
        found        == IF IsSome(fd.selected)
                        THEN FindSymbol(allNewStocks, Get(fd.selected).stock.symbol)
                        ELSE None
    IN  [a EXCEPT
           !.alerts           = First30(newAlerts \o @),
           !.unreadAlertCount = @ + Len(newAlerts),
           !.newMoversCount   = @ + newMovers,
           !.alertedSymbols   = IF newAlerts # << >> THEN fd.alertedSymbols \cup symbols ELSE @,
           !.timeouts         = IF newAlerts # << >>
                                THEN @ \cup {[due |-> now + ALERT_EXPIRY_MS,
                                              symbols |-> symbols, fetch |-> f]}
                                ELSE @,
           !.isFirstRender    = FALSE,
           !.stocks           = [gen |-> fd.cycle] @@ Views(data),
           !.prevStocksRef    = Some(Views(data)),
           !.apiStatus        = data.status,
           !.selected         = IF IsSome(found)
                                THEN Some([gen |-> fd.cycle, stock |-> Get(found)]) ELSE @,
           !.watchlist        = WatchlistUpdate(@, allNewStocks),
           !.isLoading        = FALSE,
           !.fetches[f].state = "done",
           !.log              = newAlerts \o @,
           !.last             = [fetch |-> f, ok |-> TRUE, compared |-> compared,
                                 prev |-> a.prevStocksRef, raised |-> newAlerts,
                                 sounds |-> IF fd.soundEnabled THEN Len(newAlerts) ELSE 0] ]

\* A catch block without its setApiStatus('offline')
FetchDataRejectedKeepsStatus(a, f) ==
    [a EXCEPT !.isLoading        = FALSE,
              !.fetches[f].state = "failed",
              !.last             = [NoSettle EXCEPT !.fetch = f, !.prev = a.prevStocksRef] ]

\* A catch block that also forgets the previous cycle
FetchDataRejectedForgets(a, f) ==
    [a EXCEPT !.apiStatus        = "offline",
              !.prevStocksRef    = None,
              !.isLoading        = FALSE,
              !.fetches[f].state = "failed",
              !.last             = [NoSettle EXCEPT !.fetch = f, !.prev = a.prevStocksRef] ]

\* A catch block that also clears the polling interval
FetchDataRejectedStopsPolling(a, f) ==
    [a EXCEPT !.apiStatus        = "offline",
              !.interval         = None,
              !.isLoading        = FALSE,
              !.fetches[f].state = "failed",
              !.last             = [NoSettle EXCEPT !.fetch = f, !.prev = a.prevStocksRef] ]

\* fetchData, lines 628-633, once fetchScannerData has rejected
FetchDataRejected(a, f) ==
    [a EXCEPT !.apiStatus        = "offline",
              !.isLoading        = FALSE,
              !.fetches[f].state = "failed",
              !.last             = [NoSettle EXCEPT !.fetch = f, !.prev = a.prevStocksRef] ]

\* The activations of fetchData that a settles: the one whose
\* fetchScannerData, among the activations cys, has just settled
Settling(a, cys) ==
    {f \in DOMAIN a.fetches : /\ a.fetches[f].state = "awaiting"
                              /\ cys[a.fetches[f].cycle].pc \in {"resolved", "rejected"}}

\* The component once the fetchData that awaits a settled fetchScannerData has
\* gone on, rendered and run its effects
AppResume(a, cys) ==
    IF Settling(a, cys) = {} THEN a
    ELSE LET f  == CHOOSE f \in Settling(a, cys) : TRUE
             cy == cys[a.fetches[f].cycle]
         IN  IF cy.pc = "resolved"
             THEN LET after == FetchDataResolved(a, f, Get(cy.result))
                  IN  Commit(a, after, after.last.raised # << >>)
             ELSE Commit(a, FetchDataRejected(a, f), FALSE)

\* The component becomes a; the fetchData calls of the step have started
\* their fetchScannerData, each up to its fetchGainers request
AppStep(a, lcs, cys, w) ==
    LET first == Len(app.fetches)
        n     == Len(a.fetches) - first
    IN  /\ app' = a
        /\ lcalls' = lcs \o [i \in 1..n |-> NewListCall("fetchGainers", Len(cys) + i)]
        /\ cycles' = cys \o [i \in 1..n |->
                               NewCycle(a.fetches[first + i].prevData, Len(lcs) + i)]
        /\ work' = w + 2 * n

\* The fetchScannerData activations have become cys (and the list requests
\* lcs): the fetchData that awaited the one that settled goes on
AppSettle(lcs, cys, w) == AppStep(AppResume(app, cys), lcs, cys, w)

(***************************************************************************)
(* The operations                                                          *)
(***************************************************************************)
\* work bounds what the callers start: a fetchProfilesBatch call costs 1 and 1
\* for each symbol, a fetchGainers, fetchLosers or fetchScannerData call 2 (and
\* 1 for each ticker it is answered with), a search-box lookup 3.
\* The request lists a caller can still afford:
SymbolLists(left) == UNION {[1..k -> Symbols] : k \in 0..(left - 1)}

\* The tickers the quotes provider answers with in the pipeline runs
SampleTickers ==
    { [ ticker |-> "AAPL", todaysChangePerc |-> 25000,
        day |-> Some([o |-> 10, h |-> 10, l |-> 8, c |-> 10, v |-> 700, vw |-> 10]),
        prevDay |-> Some([c |-> 8, v |-> 100]) ],
      [ ticker |-> "TSLA", todaysChangePerc |-> 1000,
        day |-> Some([o |-> 30, h |-> 33, l |-> 29, c |-> 30, v |-> 100, vw |-> 0]),
        prevDay |-> Some([c |-> 30, v |-> 100]) ] }

\* Lists of distinct tickers, as many as the budget allows
TickerLists(left) ==
    { l \in UNION {[1..k -> SampleTickers] : k \in 0..Min(left, Cardinality(SampleTickers))} :
        \A i, j \in DOMAIN l : i # j => l[i] # l[j] }

\* What a snapshot request can end as: fetch rejects, a non-2xx status, a 2xx
\* status with tickers (data.tickers || [], data.ticker)
PolygonResponses(left) ==
    { [kind |-> "exception", status |-> 0, tickers |-> << >>] }
    \cup { [kind |-> "response", status |-> st, tickers |-> << >>] : st \in {403, 404, 500} }
    \cup { [kind |-> "response", status |-> 200, tickers |-> l] : l \in TickerLists(left) }

\* Every activation that waits for a fetchProfilesBatch goes on when it settles
Resume(bcs) ==
    /\ AppSettle(lcalls, [k \in DOMAIN cycles |-> ScannerResume(cycles[k], bcs)], work)
    /\ lookups' = [k \in DOMAIN lookups |-> LookupResume(lookups[k], bcs)]

\* A caller invokes fetchProfilesBatch(symbols, maxConcurrent)
CallBatch ==
    /\ work < budget
    /\ \E symbols \in SymbolLists(budget - work), n \in 1..MaxConcurrent :
         /\ bcalls' = Append(bcalls, BatchStart(symbols, n, "caller", localStorage, now))
         /\ work' = work + 1 + Len(symbols)
    /\ UNCHANGED <<FMP_KEY, budget, localStorage, now, ticks, derive, app, written>>
    /\ UNCHANGED polygonVars

\* The response to one profile request arrives
ProfileResponse ==
    \E k \in DOMAIN bcalls :
      \E j \in bcalls[k].inflight, resp \in FmpResponses :
        LET symbol == bcalls[k].batches[bcalls[k].group][j]
            r      == ProfileSettle(symbol, resp, localStorage, now)
        IN  /\ bcalls' = [bcalls EXCEPT
                            ![k] = BatchSettle(bcalls[k], j, resp, localStorage, now)]
            /\ localStorage' = r.ls
            /\ written' = IF r.kind = "fetched"
                          THEN [written EXCEPT ![symbol] =
                                  Some([data |-> Get(r.value), at |-> now, purged |-> FALSE])]
                          ELSE written
            /\ Resume(bcalls')
            /\ UNCHANGED <<FMP_KEY, budget, now, ticks, derive>>
            /\ UNCHANGED <<logged403, warnings, nextError>>

\* The 200 ms timer between two batches fires
BatchTimer ==
    \E k \in DOMAIN bcalls :
      /\ bcalls[k].phase = "delay"
      /\ now >= bcalls[k].due
      /\ bcalls' = [bcalls EXCEPT
                      ![k] = BeginGroup(bcalls[k], bcalls[k].group + 1, localStorage, now)]
      /\ Resume(bcalls')
      /\ UNCHANGED <<FMP_KEY, budget, localStorage, now, ticks, derive, written>>
      /\ UNCHANGED <<logged403, warnings, nextError>>

\* A caller invokes cleanCache()
CleanCache ==
    /\ localStorage' = cleanCacheResult(localStorage, now)
    /\ localStorage' # localStorage
    /\ written' = [s \in Symbols |->
                     IF IsSome(written[s]) /\ ~\E e \in localStorage'.text : e[1] = s
                     THEN Some([Get(written[s]) EXCEPT !.purged = TRUE])
                     ELSE written[s]]
    /\ UNCHANGED <<FMP_KEY, budget, now, ticks, bcalls, work, derive, app>>
    /\ UNCHANGED polygonVars

CallList ==
    /\ work + 2 <= budget
    /\ \E fn \in {"fetchGainers", "fetchLosers"} :
         lcalls' = Append(lcalls, NewListCall(fn, 0))
    /\ work' = work + 2
    /\ UNCHANGED <<logged403, warnings, nextError, cycles, lookups, derive, app>>
    /\ UNCHANGED fmpVars

\* A caller invokes fetchScannerData(prevData): with nothing, or with what an
\* earlier run returned
CallScanner ==
    /\ work + 2 <= budget
    /\ \E prevData \in {None} \cup
            {[gappers |-> Get(cycles[k].result).gappers,
              momentum |-> Get(cycles[k].result).momentum,
              highRvol |-> Get(cycles[k].result).highRvol] :
                k \in {i \in DOMAIN cycles : cycles[i].pc = "resolved"}} :
         /\ lcalls' = Append(lcalls, NewListCall("fetchGainers", Len(cycles) + 1))
         /\ cycles' = Append(cycles,
                        NewCycle(IF prevData = None THEN None ELSE Some(prevData),
                                 Len(lcalls) + 1))
    /\ work' = work + 2
    /\ UNCHANGED <<logged403, warnings, nextError, lookups, derive, app>>
    /\ UNCHANGED fmpVars

\* The gainers or losers request k is answered with resp; the fetchScannerData
\* that awaits it goes on
ListSettles(k, resp) ==
    LET g == IF lcalls[k].fn = "fetchGainers"
             THEN fetchGainers(resp, logged403, nextError)
             ELSE fetchLosers(resp, logged403, nextError)
        owner == lcalls[k].owner
        starts == owner # 0 /\ ~g.threw
        bcs == IF starts
               THEN Append(bcalls,
                      BatchStart([i \in DOMAIN g.tickers |-> g.tickers[i].ticker],
                                 5, "fetchScannerData", localStorage, now))
               ELSE bcalls
    IN  /\ logged403' = g.logged403
        /\ warnings' = IF g.warned THEN warnings + 1 ELSE warnings
        /\ nextError' = IF g.threw THEN nextError + 1 ELSE nextError
        /\ bcalls' = bcs
        /\ AppSettle([lcalls EXCEPT
                        ![k].state = IF g.threw THEN "threw" ELSE "returned",
                        ![k].error = g.error,
                        ![k].status = resp.status],
                     [c \in DOMAIN cycles |->
                        IF c = owner
                        THEN ScannerResume(
                               ScannerAfterGainers(cycles[c], g, Len(bcs)), bcs)
                        ELSE cycles[c]],
                     work + Len(g.tickers))
        /\ UNCHANGED <<FMP_KEY, budget, localStorage, now, ticks, lookups, derive, written>>

\* The response to a gainers or losers request arrives, the quotes being the
\* sample tickers
ListResponse ==
    \E k \in DOMAIN lcalls :
      /\ lcalls[k].state = "pending"
      /\ \E resp \in PolygonResponses(budget - work) : ListSettles(k, resp)

\* The search box's handleSelectSymbol(symbol) calls fetchTickerSnapshot
CallLookup ==
    /\ work + 3 <= budget
    /\ \E symbol \in Symbols :
         lookups' = Append(lookups,
                      [ symbol |-> symbol, pc |-> "snapshot", resp |-> None,
                        ticker |-> None, bcall |-> 0,
                        returned |-> [kind |-> "pending", stock |-> None],
                        error |-> "" ])
    /\ work' = work + 3
    /\ UNCHANGED <<logged403, warnings, nextError, lcalls, cycles, derive, app>>
    /\ UNCHANGED fmpVars

\* The response to a single-symbol snapshot request arrives
LookupResponse ==
    \E k \in DOMAIN lookups :
      /\ lookups[k].pc = "snapshot"
      /\ \E resp \in PolygonResponses(1) :
           LET r   == fetchTickerSnapshot(resp)
               bcs == IF r.kind = "ticker"
                      THEN Append(bcalls,
                             BatchStart(<<Get(r.ticker).ticker>>, 1, "fetchTickerSnapshot",
                                        localStorage, now))
                      ELSE bcalls
               lk  == IF r.kind = "ticker"
                      THEN [lookups[k] EXCEPT !.pc = "profiles", !.resp = Some(resp),
                                              !.ticker = r.ticker, !.bcall = Len(bcs)]
                      ELSE [lookups[k] EXCEPT
                              !.pc = "done", !.resp = Some(resp),
                              !.returned = [kind |-> r.kind, stock |-> None],
                              !.error = handleSelectSymbol(r)]
           IN  /\ bcalls' = bcs
               /\ lookups' = [lookups EXCEPT ![k] = LookupResume(lk, bcs)]
      /\ UNCHANGED <<FMP_KEY, budget, localStorage, now, ticks, work, derive, app, written>>
      /\ UNCHANGED <<logged403, warnings, nextError, lcalls, cycles>>

\* The inputs of processPolygonTicker
DeriveDays ==
    {None} \cup { Some([o |-> o, h |-> h, l |-> 8, c |-> c, v |-> v, vw |-> vw]) :
                    o \in {0, 10}, h \in {0, 10, 12}, c \in {0, 10, 30}, v \in {0, 700},
                    vw \in {0, 10} }

DerivePrevDays == {None} \cup { Some([c |-> c, v |-> v]) : c \in {0, 8}, v \in {0, 100} }

DeriveTickers ==
    { [ticker |-> "AAPL", todaysChangePerc |-> p, day |-> d, prevDay |-> pd] :
        p \in {-2000, 0, 5005, 25000}, d \in DeriveDays, pd \in DerivePrevDays }

DeriveFloatData ==
    {None} \cup { Some([float |-> f, marketCap |-> 0, sector |-> "", avgVolume |-> a]) :
                    f \in {0, 5000000, 15000000, 25000000}, a \in {0, 100} }

\* processPolygonTicker(ticker, undefined, floatData)
DeriveFresh ==
    /\ derive.calls = 0
    /\ \E t \in DeriveTickers, fd \in DeriveFloatData :
         derive' = [ calls |-> 1, ticker |-> Some(t), prevData |-> None, floatData |-> fd,
                     stock |-> Some(processPolygonTicker(t, None, fd)),
                     prices |-> <<processPolygonTicker(t, None, fd).price>> ]
    /\ UNCHANGED <<work, app>>
    /\ UNCHANGED fmpVars
    /\ UNCHANGED polygonVars

ChainFloatData == {None, Some(ToFloatData(CHOOSE p \in ApiProfiles : p.avgVolume > 0))}

\* processPolygonTicker(ticker, previous, floatData), previous being what the
\* call before returned
DeriveChain ==
    /\ IsSome(derive.stock)
    /\ derive.calls < MaxChain
    /\ \E t \in SampleTickers, fd \in ChainFloatData :
         derive' = [ calls |-> derive.calls + 1, ticker |-> Some(t),
                     prevData |-> derive.stock, floatData |-> fd,
                     stock |-> Some(processPolygonTicker(t, derive.stock, fd)),
                     prices |-> Append(derive.prices,
                                       processPolygonTicker(t, derive.stock, fd).price) ]
    /\ UNCHANGED <<work, app>>
    /\ UNCHANGED fmpVars
    /\ UNCHANGED polygonVars

\* Time passes
TimeSteps == {DELAY_MS, CACHE_EXPIRY}

Tick ==
    /\ ticks < MaxTicks
    /\ \E d \in TimeSteps : now' = now + d
    /\ ticks' = ticks + 1
    /\ UNCHANGED <<FMP_KEY, budget, localStorage, bcalls, work, derive, app, written>>
    /\ UNCHANGED polygonVars

(***************************************************************************)
(* Initial states                                                          *)
(***************************************************************************)
\* The caches an earlier session can have left: each symbol absent, stale
\* (written CACHE_EXPIRY ago) or fresh (written just now)
StartTime == CACHE_EXPIRY

CachedData == [float |-> 5000000, marketCap |-> 700, sector |-> "Energy", avgVolume |-> 50]

SessionCaches ==
    UNION { [S -> { [data |-> CachedData, timestamp |-> ts] : ts \in {0, StartTime} }] :
              S \in SUBSET Symbols }

NoDerive == [calls |-> 0, ticker |-> None, prevData |-> None, floatData |-> None,
             stock |-> None, prices |-> << >>]

InitCalls ==
    /\ now = StartTime
    /\ ticks = 0
    /\ bcalls = << >>
    /\ logged403 = FALSE
    /\ warnings = 0
    /\ nextError = 1
    /\ lcalls = << >>
    /\ cycles = << >>
    /\ lookups = << >>
    /\ derive = NoDerive
    /\ written = [s \in Symbols |-> None]
    /\ work = 0

\* (the App is not rendered in the runs of the API modules alone)
InitRest ==
    /\ InitCalls
    /\ budget = MaxWork
    /\ app = AppConstructed(CHOOSE d \in MockDraws : TRUE, << >>)

Init ==
    /\ FMP_KEY \in BOOLEAN
    /\ localStorage \in {StoredOther("absent")} \cup {StoredCache(m) : m \in SessionCaches}
    /\ InitRest

Next ==
    \/ CallBatch
    \/ ProfileResponse
    \/ BatchTimer
    \/ CleanCache
    \/ CallList
    \/ CallScanner
    \/ ListResponse
    \/ CallLookup
    \/ LookupResponse
    \/ Tick

Spec == Init /\ [][Next]_vars

\* The same operations, whatever is stored under the cache key
InitStored ==
    /\ FMP_KEY \in BOOLEAN
    /\ localStorage \in {StoredOther(k) : k \in {"absent", "garbage", "null", "prim"}}
                         \cup {StoredCache(m) : m \in SessionCaches}
    /\ InitRest

SpecStored == InitStored /\ [][Next]_vars

\* fetchGainers and fetchLosers alone, up to MaxListCalls calls
CallListOnly ==
    /\ Len(lcalls) < MaxListCalls
    /\ \E fn \in {"fetchGainers", "fetchLosers"} :
         lcalls' = Append(lcalls, NewListCall(fn, 0))
    /\ UNCHANGED <<logged403, warnings, nextError, cycles, lookups, derive, app, work>>
    /\ UNCHANGED fmpVars

InitLists ==
    /\ FMP_KEY = TRUE
    /\ localStorage = StoredOther("absent")
    /\ InitRest

NextLists ==
    \/ CallListOnly
    \/ ListResponse

SpecLists == InitLists /\ [][NextLists]_vars

\* fetchScannerData runs, each given nothing or what an earlier run returned
InitPipeline ==
    /\ FMP_KEY = TRUE
    /\ localStorage = StoredOther("absent")
    /\ InitCalls
    /\ budget = MaxPipeline
    /\ app = AppConstructed(CHOOSE d \in MockDraws : TRUE, << >>)

\* (the runs ask for their symbols by 5 and so set no timer between batches)
NextPipeline ==
    \/ CallScanner
    \/ ListResponse
    \/ ProfileResponse
    \/ Tick

SpecPipeline == InitPipeline /\ [][NextPipeline]_vars

\* fetchScannerData on long snapshots, without previous data and the FMP key
\* not configured (fetchProfilesBatch then returns its empty map at once).
\* The tickers of a snapshot follow a pattern: ticker i gaps by
\* (i * gmul) % gmod percent, has changed by (i * 5) % gmod percent, trades
\* between 1.0 and 1.7 times the previous day's volume, and has no volume
\* when holes divides i.
SnapshotSymbols ==
    <<"S01", "S02", "S03", "S04", "S05", "S06", "S07", "S08", "S09", "S10", "S11",
      "S12", "S13", "S14", "S15", "S16", "S17", "S18", "S19", "S20", "S21", "S22",
      "S23", "S24", "S25", "S26", "S27", "S28", "S29", "S30", "S31", "S32">>

Patterns == [gmul : {1, 7}, gmod : {5, 13, 41}, holes : {0, 1, 3, 7}]

PatternTicker(i, pat) ==
    LET gap == (i * pat.gmul) % pat.gmod
    IN  [ ticker |-> SnapshotSymbols[i],
          todaysChangePerc |-> ((i * 5) % pat.gmod) * 1000,
          day |-> Some([ o |-> 100 + gap, h |-> 101 + gap, l |-> 99, c |-> 100 + gap,
                         v |-> IF pat.holes > 0 /\ i % pat.holes = 0 THEN 0
                               ELSE 100 + 10 * ((i * 3) % 8),
                         vw |-> 0 ]),
          prevDay |-> Some([c |-> 100, v |-> 100]) ]

RankSnapshot ==
    /\ cycles = << >>
    /\ \E n \in 0..MaxSnapshot, pat \in Patterns :
         LET snapshot == [i \in 1..n |-> PatternTicker(i, pat)]
             bc == BatchStart([i \in 1..n |-> snapshot[i].ticker], 5, "fetchScannerData",
                              localStorage, now)
             cy == [ prevData |-> None, pc |-> "gainers", lcall |-> 1, bcall |-> 0,
                     gainers |-> << >>, error |-> None, result |-> None ]
             g  == [threw |-> FALSE, error |-> None, tickers |-> snapshot,
                    logged403 |-> logged403, warned |-> FALSE]
         IN  /\ lcalls' = <<[NewListCall("fetchGainers", 1) EXCEPT
                               !.state = "returned", !.status = 200]>>
             /\ bcalls' = <<bc>>
             /\ cycles' = <<ScannerResume(ScannerAfterGainers(cy, g, 1), <<bc>>)>>
    /\ UNCHANGED <<FMP_KEY, budget, localStorage, now, ticks, written, work, derive, app>>
    /\ UNCHANGED <<logged403, warnings, nextError, lookups>>

InitViews ==
    /\ FMP_KEY = FALSE
    /\ localStorage = StoredOther("absent")
    /\ InitRest

SpecViews == InitViews /\ [][RankSnapshot]_vars

\* processPolygonTicker alone, over its inputs
InitDerive ==
    /\ FMP_KEY = TRUE
    /\ localStorage = StoredOther("absent")
    /\ InitRest

NextDerive ==
    \/ DeriveFresh
    \/ DeriveChain

SpecDerive == InitDerive /\ [][NextDerive]_vars

\* A long chain of processPolygonTicker calls, each given the record the call
\* before returned: the tickers differ by their price
HistoryTickers ==
    { [ ticker |-> "AAPL", todaysChangePerc |-> 1000,
        day |-> Some([o |-> 10, h |-> 12, l |-> 8, c |-> c, v |-> 700, vw |-> 10]),
        prevDay |-> Some([c |-> 8, v |-> 100]) ] : c \in {10, 11} }

HistoryCall ==
    /\ derive.calls < MaxHistory
    /\ \E t \in HistoryTickers :
         LET stock == processPolygonTicker(t, derive.stock, None)
         IN  derive' = [ calls |-> derive.calls + 1, ticker |-> Some(t),
                         prevData |-> derive.stock, floatData |-> None,
                         stock |-> Some(stock),
                         prices |-> Append(derive.prices, stock.price) ]
    /\ UNCHANGED <<work, app>>
    /\ UNCHANGED fmpVars
    /\ UNCHANGED polygonVars

SpecHistory == InitDerive /\ [][HistoryCall]_vars

(***************************************************************************)
(* The App: its events                                                     *)
(***************************************************************************)
\* Timers fire in the order they are due
EarliestDue(due) ==
    /\ now >= due
    /\ \A t \in app.timeouts : t.due >= due
    /\ IsSome(app.interval) => Get(app.interval) >= due

\* An event of the component alone: no response has arrived
AppEvent(a) ==
    /\ AppStep(a, lcalls, cycles, work)
    /\ UNCHANGED <<logged403, warnings, nextError, lookups, derive>>
    /\ UNCHANGED fmpVars

\* The first render is committed: the polling effect runs (selectedIndex is
\* -1, lines 693-697 do nothing)
Mount ==
    /\ ~app.mounted
    /\ AppEvent(PollingEffect([app EXCEPT !.mounted = TRUE], "mount"))

\* The polling interval fires, line 639
IntervalTick ==
    /\ app.mounted
    /\ IsSome(app.interval)
    /\ EarliestDue(Get(app.interval))
    /\ work + 2 <= budget
    /\ AppEvent([FetchDataCall(app, "timer") EXCEPT !.interval = Some(now + POLL_MS)])

\* The R key, line 679
RefreshKey ==
    /\ app.mounted
    /\ work + 2 <= budget
    /\ AppEvent(FetchDataCall(app, "key"))

\* The refresh button, line 793, disabled while isLoading
RefreshButton ==
    /\ app.mounted
    /\ ~app.isLoading
    /\ work + 2 <= budget
    /\ AppEvent(FetchDataCall(app, "button"))

\* handleRowClick, lines 726-731, on a row of the table
SelectRow ==
    /\ app.mounted
    /\ work + 2 <= budget
    /\ \E i \in DOMAIN filteredStocks(app) :
         AppEvent(Commit(app,
                         [app EXCEPT !.selected = Some([gen |-> app.stocks.gen,
                                                        stock |-> filteredStocks(app)[i]]),
                                     !.selectedIndex = i - 1],
                         FALSE))

\* The Escape key, line 684
Escape ==
    /\ app.mounted
    /\ IsSome(app.selected)
    /\ work + 2 <= budget
    /\ AppEvent(Commit(app, [app EXCEPT !.selected = None, !.selectedIndex = -1], FALSE))

\* The S key, line 678, or the sound button, line 784
ToggleSound ==
    /\ app.mounted
    /\ work + 2 <= budget
    /\ AppEvent(Commit(app, [app EXCEPT !.soundEnabled = ~@], FALSE))

\* A timeout of lines 595-601 fires
AlertExpiry ==
    /\ \E t \in app.timeouts :
         /\ EarliestDue(t.due)
         /\ AppEvent(Commit(app,
                            [app EXCEPT !.alertedSymbols = @ \ t.symbols,
                                        !.timeouts = @ \ {t}],
                            TRUE))

\* Time passes in the App, half a polling period at a time
Elapse ==
    /\ ticks < MaxTicks
    /\ now' = now + ALERT_EXPIRY_MS
    /\ ticks' = ticks + 1
    /\ UNCHANGED <<FMP_KEY, budget, localStorage, bcalls, work, derive, app, written>>
    /\ UNCHANGED polygonVars

\* The watchlist an earlier session has left under its storage key
SessionWatchlists ==
    { <<[symbol |-> "AAPL", note |-> "", addedPrice |-> 9, color |-> "none",
         priceHistory |-> <<9>>]>> }

\* The App from its first render on, the fundamentals key not configured
\* (fetchProfilesBatch then returns its empty map at once)
InitApp ==
    /\ FMP_KEY = FALSE
    /\ localStorage = StoredOther("absent")
    /\ InitCalls
    /\ budget = MaxApp
    /\ app \in {AppConstructed(d, w) : d \in MockDraws, w \in SessionWatchlists}

NextApp ==
    \/ Mount
    \/ IntervalTick
    \/ RefreshKey
    \/ RefreshButton
    \/ SelectRow
    \/ Escape
    \/ ToggleSound
    \/ AlertExpiry
    \/ Elapse
    \/ ListResponse

SpecApp == InitApp /\ [][NextApp]_vars

\* The App while the market moves: from one answer to the next a symbol's
\* change of the day is 1 % or 5 % and its volume 5 or 12 times the previous
\* day's (every quote gaps up 25 % at a price of 10 and so qualifies)
MovingTicker(symbol, change, volume) ==
    [ ticker |-> symbol, todaysChangePerc |-> change,
      day |-> Some([o |-> 10, h |-> 10, l |-> 8, c |-> 10, v |-> volume, vw |-> 10]),
      prevDay |-> Some([c |-> 8, v |-> 100]) ]

MovingTickers ==
    {MovingTicker("AAPL", c, v) : c \in {1000, 5000}, v \in {500, 1200}}

\* The gainers now one symbol, now the other, their quotes steady
SteadyTickers == {MovingTicker(s, 1000, 500) : s \in Symbols}

\* What the gainers request ends as: fetch rejects, or a 2xx answer with no
\* ticker or, while the budget lasts, with one of tickers
OneTickerResponses(left, tickers) ==
    { [kind |-> "exception", status |-> 0, tickers |-> << >>],
      [kind |-> "response", status |-> 200, tickers |-> << >>] }
    \cup { [kind |-> "response", status |-> 200, tickers |-> <<t>>] :
             t \in IF left >= 1 THEN tickers ELSE {} }

QuoteResponse ==
    \E k \in DOMAIN lcalls :
      /\ lcalls[k].state = "pending"
      /\ \E resp \in OneTickerResponses(budget - work, MovingTickers) : ListSettles(k, resp)

InitAlerts ==
    /\ FMP_KEY = FALSE
    /\ localStorage = StoredOther("absent")
    /\ InitCalls
    /\ budget = MaxAlerts
    /\ app \in {AppConstructed(d, << >>) : d \in MockDraws}

\* (less than 30 seconds pass in these runs: no alert timeout fires)
NextAlerts ==
    \/ Mount
    \/ RefreshButton
    \/ QuoteResponse

SpecAlerts == InitAlerts /\ [][NextAlerts]_vars

\* The App while the gainers change and the alert highlights expire
SteadyResponse ==
    \E k \in DOMAIN lcalls :
      /\ lcalls[k].state = "pending"
      /\ \E resp \in OneTickerResponses(budget - work, SteadyTickers) : ListSettles(k, resp)

InitHighlight ==
    /\ FMP_KEY = FALSE
    /\ localStorage = StoredOther("absent")
    /\ InitCalls
    /\ budget = MaxHighlight
    /\ app \in {AppConstructed(d, << >>) : d \in MockDraws}

NextHighlight ==
    \/ Mount
    \/ RefreshButton
    \/ AlertExpiry
    \/ Elapse
    \/ SteadyResponse

SpecHighlight == InitHighlight /\ [][NextHighlight]_vars

\* The App while the gainers are long snapshots: each answer is the first
\* MaxSnapshot tickers of a pattern
LogPatterns == {pat \in Patterns : pat.gmul = 1 /\ pat.holes = 0}

SnapshotResponse ==
    \E k \in DOMAIN lcalls :
      /\ lcalls[k].state = "pending"
      /\ work + MaxSnapshot <= budget
      /\ \E pat \in LogPatterns :
           ListSettles(k, [kind |-> "response", status |-> 200,
                           tickers |-> [i \in 1..MaxSnapshot |-> PatternTicker(i, pat)]])

InitLog ==
    /\ FMP_KEY = FALSE
    /\ localStorage = StoredOther("absent")
    /\ InitCalls
    /\ budget = MaxLog
    /\ app \in {AppConstructed(d, << >>) : d \in MockDraws}

NextLog ==
    \/ Mount
    \/ RefreshButton
    \/ Elapse
    \/ SnapshotResponse

SpecLog == InitLog /\ [][NextLog]_vars

\* The App while timer ticks and R-key refreshes overlap
InitRace ==
    /\ FMP_KEY = FALSE
    /\ localStorage = StoredOther("absent")
    /\ InitCalls
    /\ budget = MaxRace
    /\ app \in {AppConstructed(d, << >>) : d \in MockDraws}

NextRace ==
    \/ Mount
    \/ IntervalTick
    \/ RefreshKey
    \/ AlertExpiry
    \/ Elapse
    \/ SteadyResponse

SpecRace == InitRace /\ [][NextRace]_vars

(***************************************************************************)
(* Properties of processPolygonTicker (SpecDerive)                         *)
(***************************************************************************)
NoRepeats(seq) == \A i, j \in DOMAIN seq : i # j => seq[i] # seq[j]

\* C9: whatever the ticker snapshot, the previous record (or none) and the
\* fundamentals record (or none), the record processPolygonTicker returns has a
\* strategy list of at least 1 and at most 3 tags, no tag twice.
C9_StrategyOneToThree ==
    IsSome(derive.stock) =>
        LET strategy == Get(derive.stock).strategy
        IN  /\ Len(strategy) >= 1
            /\ Len(strategy) <= 3
            /\ NoRepeats(strategy)

\* C9's case: more than three of getStrategy's conditions hold of the record
C9_Witness ==
    /\ IsSome(derive.stock)
    /\ Len(StrategyTags(Get(derive.stock))) > 3
    /\ Len(Get(derive.stock).strategy) = 3

\* The denominator as the claim C10 words it
C10_Denominator ==
    LET ticker == Get(derive.ticker)
        fd     == derive.floatData
    IN  IF IsSome(fd) /\ Get(fd).avgVolume > 0 THEN Get(fd).avgVolume
        ELSE IF PrevDayField(ticker, "v") # 0 THEN PrevDayField(ticker, "v")
             ELSE 1

\* C10: processPolygonTicker computes relative volume as the current volume
\* over a denominator that is the fundamentals' average volume when there are
\* fundamentals and it is > 0, else the previous day's volume when it is not 0,
\* else 1; the denominator is never 0 and, the current volume not being
\* negative, the relative volume (kept to 2 decimals in rVol, unrounded in a
\* first record's prevRVol) is finite and >= 0.
C10_RelativeVolume ==
    IsSome(derive.stock) =>
        LET stock  == Get(derive.stock)
            volume == DayField(Get(derive.ticker), "v")
        IN  /\ C10_Denominator # 0
            /\ stock.rVol = Round(100 * volume, C10_Denominator)
            /\ stock.rVol >= 0
            /\ ~IsSome(derive.prevData) =>
                 stock.prevRVol = [n |-> volume, d |-> C10_Denominator]

\* C10's case: fundamentals without an average volume and no previous day's
\* volume, so that the denominator is 1
C10_Witness ==
    /\ IsSome(derive.stock)
    /\ IsSome(derive.floatData)
    /\ Get(derive.floatData).avgVolume = 0
    /\ PrevDayField(Get(derive.ticker), "v") = 0
    /\ DayField(Get(derive.ticker), "v") > 0
    /\ Get(derive.stock).rVol = 100 * DayField(Get(derive.ticker), "v")

(***************************************************************************)
(* Properties of the snapshot client and the pipeline                      *)
(***************************************************************************)
\* The gainers request of the fetchScannerData run k was answered with 403
GainersForbidden(k) == lcalls[cycles[k].lcall].status = 403

\* C1: when the gainers request is answered with HTTP 403, fetchScannerData
\* rejects, with a PolygonUpgradeError and never with a result; the error is
\* the very object fetchGainers threw; no fetchProfilesBatch is started in
\* that run.
C1_ForbiddenRejectsUnmodified ==
    \A k \in DOMAIN cycles :
        GainersForbidden(k) =>
            /\ cycles[k].pc = "rejected"
            /\ cycles[k].result = None
            /\ IsSome(cycles[k].error)
            /\ Get(cycles[k].error).name = "PolygonUpgradeError"
            /\ cycles[k].error = lcalls[cycles[k].lcall].error
            /\ cycles[k].bcall = 0
            /\ Cardinality({b \in DOMAIN bcalls : bcalls[b].owner = "fetchScannerData"})
                 = Cardinality({c \in DOMAIN cycles : cycles[c].bcall # 0})

\* C1's case: a run answered with 403 after another error object was made
C1_Witness ==
    \E k \in DOMAIN cycles :
        /\ GainersForbidden(k)
        /\ cycles[k].pc = "rejected"
        /\ Get(cycles[k].error).id > 1

\* C7: however fetchGainers and fetchLosers calls follow and overlap one
\* another and however many of them are answered with HTTP 403, the
\* plan-restriction warning is logged at most once in all, and each of those
\* calls throws a PolygonUpgradeError.
C7_WarnOnceThrowAlways ==
    /\ warnings <= 1
    /\ \A k \in DOMAIN lcalls :
         lcalls[k].status = 403 =>
            /\ lcalls[k].state = "threw"
            /\ Get(lcalls[k].error).name = "PolygonUpgradeError"
    /\ (\E k \in DOMAIN lcalls : lcalls[k].status = 403) => warnings = 1

\* C7's case: a fetchGainers and a fetchLosers both answered with 403, a third
\* call still pending
C7_Witness ==
    /\ \E k \in DOMAIN lcalls : lcalls[k].fn = "fetchGainers" /\ lcalls[k].status = 403
    /\ \E k \in DOMAIN lcalls : lcalls[k].fn = "fetchLosers" /\ lcalls[k].status = 403
    /\ \E k \in DOMAIN lcalls : lcalls[k].state = "pending"
    /\ warnings = 1

\* C8 as claimed: of fetchTickerSnapshot a 404 gives null, and every other
\* non-2xx status and every exception of fetch give an outcome the caller can
\* tell from the 404's: not null, and not the search box's "Symbol not found".
C8_FailureToldFromNotFound ==
    \A k \in DOMAIN lookups :
        (lookups[k].pc = "done" /\ IsSome(lookups[k].resp)) =>
            LET resp == Get(lookups[k].resp)
            IN  /\ (resp.kind = "response" /\ resp.status = 404) =>
                      lookups[k].returned.kind = "null"
                /\ (resp.kind = "exception" \/ (~ResponseOk(resp) /\ resp.status # 404)) =>
                      /\ lookups[k].returned.kind # "null"
                      /\ lookups[k].error # "Symbol not found"

(***************************************************************************)
(* Properties of the fundamentals cache client                             *)
(***************************************************************************)
\* Of a fetchProfilesBatch call c: the requested symbols that had a cache entry
\* younger than 24 hours when the call was made, the record of such an entry,
\* and the symbols a request was issued for
FreshSymbols(c) == {e[1] : e \in c.fresh}

CachedRecord(e) == [float |-> e[2], marketCap |-> e[3], sector |-> e[4], avgVolume |-> e[5]]

RequestedSymbols(c) == {c.batches[r[1]][r[2]] : r \in c.requested}

FreshServedFromCache(c) ==
    \A e \in c.fresh :
        /\ e[1] \notin RequestedSymbols(c)
        /\ c.phase = "resolved" =>
             /\ e[1] \in DOMAIN c.results
             /\ c.results[e[1]] = CachedRecord(e)

\* C2 as claimed: for every fetchProfilesBatch call and every requested symbol
\* with a cache entry younger than 24 hours at the call, the returned map has
\* the symbol with the cached record and no request is issued for it.
C2_FreshFromCache == \A k \in DOMAIN bcalls : FreshServedFromCache(bcalls[k])

\* C2 amended: so it is when the FMP API key is configured; without the key
\* the call returns an empty map and issues no request.
C2_FreshFromCacheWithKey ==
    \A k \in DOMAIN bcalls :
        IF FMP_KEY
        THEN FreshServedFromCache(bcalls[k])
        ELSE /\ bcalls[k].phase = "resolved"
             /\ bcalls[k].results = EmptyMap
             /\ bcalls[k].requested = {}

\* C2's case: a call, the key configured, has returned, one requested symbol
\* fresh in the cache and another fetched
C2_Witness ==
    /\ FMP_KEY
    /\ \E k \in DOMAIN bcalls :
         /\ bcalls[k].phase = "resolved"
         /\ bcalls[k].fresh # {}
         /\ bcalls[k].requested # {}

\* The requests of the call c that have not settled
InFlight(c) == {r \in c.requested : ~\E o \in c.outcome : o.g = r[1] /\ o.j = r[2]}

\* C3: in one fetchProfilesBatch(symbols, n) the uncached symbols (none when
\* the key is not configured: nothing is fetched then) are cut in request order
\* into consecutive groups of n, the last possibly smaller; at most n requests
\* of the call are in flight at any moment; no request of a group is issued
\* before every request of the groups before it has settled; and the 200 ms
\* timer is set after every group but the last.
C3_GroupsOfN ==
    \A k \in DOMAIN bcalls :
        LET c == bcalls[k]
            n == c.n
            L == Len(c.toFetch)
            G == Len(c.batches)
        IN  /\ FMP_KEY =>
                 c.toFetch = SelectSeq(c.symbols, LAMBDA s : s \notin FreshSymbols(c))
            /\ G = (L + n - 1) \div n
            /\ \A g \in 1..G :
                 /\ Len(c.batches[g]) = IF g < G THEN n ELSE L - (G - 1) * n
                 /\ \A j \in DOMAIN c.batches[g] :
                      c.batches[g][j] = c.toFetch[(g - 1) * n + j]
            /\ Cardinality(InFlight(c)) <= n
            /\ InFlight(c) = {<<c.group, j>> : j \in c.inflight}
            /\ \A r \in c.requested : r[1] <= c.group
            /\ c.phase = "delay" => c.group < G /\ InFlight(c) = {}
            /\ c.phase = "resolved" => c.group = G /\ InFlight(c) = {}
            /\ c.delays = IF c.phase = "delay" THEN c.group
                          ELSE IF c.group = 0 THEN 0 ELSE c.group - 1

\* C3's case: three uncached symbols by groups of 2, the second group of one,
\* all requested, one timer set
C3_Witness ==
    \E k \in DOMAIN bcalls :
        /\ bcalls[k].phase = "resolved"
        /\ bcalls[k].n = 2
        /\ Len(bcalls[k].batches) = 2
        /\ Len(bcalls[k].batches[2]) = 1
        /\ Cardinality(bcalls[k].requested) = 3
        /\ bcalls[k].delays = 1

\* C4: in fetchProfilesBatch a symbol whose fetches all failed (non-2xx,
\* exception of fetch) or gave an empty list is absent from the returned map;
\* the call resolves all the same; every other uncached symbol, of the same
\* group and of the later groups, is still dealt with (requested, or found in
\* the cache by then) and, its fetch succeeding, is in the returned map.  The
\* stored cache is one the program wrote.
C4_FailuresContained ==
    \A k \in DOMAIN bcalls :
        LET c == bcalls[k]
        IN  /\ c.phase # "rejected"
            /\ \A o \in c.outcome : o.kind = "fetched" => o.symbol \in DOMAIN c.results
            /\ \A g \in 1..c.group : \A j \in DOMAIN c.batches[g] :
                 \/ <<g, j>> \in c.requested
                 \/ \E o \in c.outcome : o.g = g /\ o.j = j /\ o.kind = "cached"
            /\ c.phase = "resolved" =>
                 /\ c.group = Len(c.batches)
                 /\ \A g \in DOMAIN c.batches : \A j \in DOMAIN c.batches[g] :
                      \E o \in c.outcome : o.g = g /\ o.j = j
                 /\ \A s \in Range(c.toFetch) :
                      (\A o \in c.outcome : o.symbol = s => o.kind \in {"failed", "empty"})
                         => s \notin DOMAIN c.results

\* C4's case: a call has returned; a fetch of its first group failed, a fetch
\* of its second group succeeded
C4_Witness ==
    \E k \in DOMAIN bcalls :
        /\ bcalls[k].phase = "resolved"
        /\ \E o1, o2 \in bcalls[k].outcome :
             /\ o1.g = 1 /\ o1.kind = "failed" /\ o1.symbol \notin DOMAIN bcalls[k].results
             /\ o2.g = 2 /\ o2.kind = "fetched" /\ o2.symbol \in DOMAIN bcalls[k].results

\* After setCachedData(s, d) at time t, the last for s: getCachedData(s) gives d
\* while less than 24 hours have passed since t, and null from then on
RoundTrip(s) ==
    LET w == Get(written[s])
        r == getCachedData(s, localStorage, now)
    IN  /\ ~r.throws
        /\ now - w.at < CACHE_EXPIRY => r.value = Some(w.data)
        /\ now - w.at >= CACHE_EXPIRY => r.value = None

\* The stored mapping has the entry setCachedData(s, d) wrote at t
StillStored(s) ==
    \E e \in localStorage.text :
        e[1] = s /\ CachedRecord(e) = Get(written[s]).data /\ e[6] = Get(written[s]).at

C6_CorruptCacheIsEmpty ==
    localStorage.kind # "json" =>
        \A k \in DOMAIN bcalls :
            /\ bcalls[k].phase # "rejected"
            /\ FMP_KEY => /\ bcalls[k].toFetch = bcalls[k].symbols
                          /\ bcalls[k].group > 0 \/ bcalls[k].symbols = << >>

\* The six tags in the order getStrategy tries them, and what each asks of the
\* record (percentages in hundredths)
TagOrder ==
    <<"Perfect Setup", "Low Float Runner", "Squeeze Alert", "VWAP Reclaim", "HOD Break",
      "Gap & Go">>

TagHolds(tag, stock) ==
    CASE tag = "Perfect Setup" ->
            /\ stock.float > 0 /\ stock.float < 20000000 /\ stock.gapPercent >= 400
            /\ stock.price >= 1 /\ stock.price <= 20 /\ stock.rVol >= 500
      [] tag = "Low Float Runner" ->
            stock.float > 0 /\ stock.float < 10000000 /\ stock.rVol > 500
      [] tag = "Squeeze Alert" -> stock.gapPercent > 2000
      [] tag = "VWAP Reclaim" ->
            stock.vwapDistance > -200 /\ stock.vwapDistance < 200 /\ stock.changePercent > 300
      [] tag = "HOD Break" ->
            100 * stock.price >= 99 * stock.dayHigh /\ stock.changePercent > 0
      [] tag = "Gap & Go" -> stock.gapPercent > 1000 /\ stock.rVol > 300
      [] OTHER -> FALSE

MatchingTags(stock) == SelectSeq(TagOrder, LAMBDA tag : TagHolds(tag, stock))

\* C11: the strategy list is the first three (or fewer) of the tags Perfect
\* Setup, Low Float Runner, Squeeze Alert, VWAP Reclaim, HOD Break, Gap & Go,
\* in that order, that hold of the record; Momentum is there only when none of
\* the six holds and changePercent > 5, In Play only when none holds and
\* changePercent <= 5.
C11_FirstThreeInOrder ==
    IsSome(derive.stock) =>
        LET stock    == Get(derive.stock)
            matching == MatchingTags(stock)
        IN  /\ Len(matching) > 0 =>
                 stock.strategy = SubSeq(matching, 1, Min(3, Len(matching)))
            /\ (\E i \in DOMAIN stock.strategy : stock.strategy[i] = "Momentum") <=>
                 (Len(matching) = 0 /\ stock.changePercent > 500)
            /\ (\E i \in DOMAIN stock.strategy : stock.strategy[i] = "In Play") <=>
                 (Len(matching) = 0 /\ stock.changePercent <= 500)
            /\ Len(matching) = 0 => Len(stock.strategy) = 1

\* C11's case: four of the six hold, the first does not; the list is the
\* first three of the four
C11_Witness ==
    /\ IsSome(derive.stock)
    /\ Len(MatchingTags(Get(derive.stock))) = 4
    /\ Get(derive.stock).strategy = <<"Low Float Runner", "Squeeze Alert", "HOD Break">>

\* What the claim C12 asks of a record
PerfectConditions(stock) ==
    /\ stock.float > 0
    /\ stock.float < 20000000
    /\ stock.gapPercent >= 400
    /\ stock.price >= 1
    /\ stock.price <= 20
    /\ stock.rVol >= 500

\* C12: a derived record with 0 < float < 20,000,000, gapPercent >= 4, price
\* in [1, 20] and relative volume >= 5 has Perfect Setup as its first tag and
\* matchesCriteria is true of it; and matchesCriteria is true of every record
\* that has the tag.
C12_PerfectSetupQualifies ==
    IsSome(derive.stock) =>
        LET stock == Get(derive.stock)
        IN  /\ PerfectConditions(stock) =>
                 /\ stock.strategy[1] = "Perfect Setup"
                 /\ matchesCriteria(stock)
            /\ (\E i \in DOMAIN stock.strategy : stock.strategy[i] = "Perfect Setup") =>
                 matchesCriteria(stock)

\* C12's case: float 15,000,000, a gap of 25 %, price 10, relative volume 7
C12_Witness ==
    /\ IsSome(derive.stock)
    /\ Get(derive.stock).float = 15000000
    /\ Get(derive.stock).gapPercent = 2500
    /\ Get(derive.stock).price = 10
    /\ Get(derive.stock).rVol = 700
    /\ Get(derive.stock).strategy[1] = "Perfect Setup"

\* The last n members of a sequence
Last(seq, n) == SubSeq(seq, Len(seq) - Min(n, Len(seq)) + 1, Len(seq))

\* C13: in a chain of processPolygonTicker calls, each given the record before
\* as previous, priceHistory after k calls has min(k, 10) members, the last
\* min(k, 10) prices in the order they came; the first record, made without a
\* previous one, has the history of its own price alone and is flagged isNew.
C13_HistoryLastTen ==
    IsSome(derive.stock) =>
        LET stock == Get(derive.stock)
            k     == derive.calls
        IN  /\ Len(derive.prices) = k
            /\ Len(stock.priceHistory) = Min(k, 10)
            /\ stock.priceHistory = Last(derive.prices, 10)
            /\ k = 1 => stock.priceHistory = <<stock.price>> /\ stock.isNew
            /\ stock.isNew <=> ~IsSome(derive.prevData)

\* C13's case: 15 calls, two different prices among the five dropped
C13_Witness ==
    /\ derive.calls = 15
    /\ Len(Get(derive.stock).priceHistory) = 10
    /\ \E i, j \in 1..5 : derive.prices[i] # derive.prices[j]
    /\ Get(derive.stock).priceHistory[1] # Get(derive.stock).priceHistory[10]

(***************************************************************************)
(* Properties of fetchScannerData's results                                *)
(***************************************************************************)
\* The records of the three views of a result, or of a prevData
ViewRecords(views) == Range(views.gappers) \cup Range(views.momentum) \cup Range(views.highRvol)

\* Of the run k: the map fetchProfilesBatch resolved to, the records of its
\* result, the previous run's records of a symbol
FloatMapOf(k) == IF cycles[k].bcall = 0 THEN EmptyMap ELSE bcalls[cycles[k].bcall].results

ResultRecords(k) == ViewRecords(Get(cycles[k].result))

PreviousRecords(k, symbol) ==
    IF IsSome(cycles[k].prevData)
    THEN {r \in ViewRecords(Get(cycles[k].prevData)) : r.symbol = symbol}
    ELSE {}

\* A ticker is valid (price > 0 and volume > 0) whatever its fundamentals
ValidTicker(t) ==
    /\ Or(DayField(t, "c"), PrevDayField(t, "c")) > 0
    /\ DayField(t, "v") > 0

\* The record of a ticker without fundamentals is in the result as the views'
\* rules have it: in gappers when its gap is over 4 % or no valid record's is
GappersHasIt(k, t) ==
    LET recs == {r \in Range(Get(cycles[k].result).gappers) : r.symbol = t.ticker}
        gap(x) == processPolygonTicker(x, None, None).gapPercent
        valid == {i \in DOMAIN cycles[k].gainers : ValidTicker(cycles[k].gainers[i])}
    IN  (gap(t) > 400 \/ \A i \in valid : gap(cycles[k].gainers[i]) <= 400) => recs # {}

\* Without fundamentals: the previous record's float, market cap and sector,
\* or 0, 0 and "" when there is no previous record
FallsBackToPrevious(k, r) ==
    LET prevs == PreviousRecords(k, r.symbol)
    IN  IF prevs # {}
        THEN \E p \in prevs :
                r.float = p.float /\ r.marketCap = p.marketCap /\ r.sector = p.sector
        ELSE r.float = 0 /\ r.marketCap = 0 /\ r.sector = ""

\* C14 as claimed: in a run, a ticker whose fundamentals fetch failed or gave
\* nothing is derived all the same and not dropped for it; its float, market
\* cap and sector are the previous run's record's when there is one and 0 and
\* empty otherwise; and they are the fetched fundamentals' whenever
\* fundamentals were obtained.
C14_FundamentalsOrPrevious ==
    \A k \in DOMAIN cycles :
        cycles[k].pc = "resolved" =>
            /\ \A i \in DOMAIN cycles[k].gainers :
                 LET t == cycles[k].gainers[i]
                 IN  (t.ticker \notin DOMAIN FloatMapOf(k) /\ ValidTicker(t)) =>
                        GappersHasIt(k, t)
            /\ \A r \in ResultRecords(k) :
                 IF r.symbol \in DOMAIN FloatMapOf(k)
                 THEN LET fd == FloatMapOf(k)[r.symbol]
                      IN  r.float = fd.float /\ r.marketCap = fd.marketCap
                          /\ r.sector = fd.sector
                 ELSE FallsBackToPrevious(k, r)

\* C14 amended: ... and, fundamentals obtained, each of the three is the
\* fetched value when that is not 0 (not empty); a fetched 0 counts as missing
\* and gives way to the previous record's value, and to 0 without one.
C14_FetchedUnlessZero ==
    \A k \in DOMAIN cycles :
        cycles[k].pc = "resolved" =>
            /\ \A i \in DOMAIN cycles[k].gainers :
                 LET t == cycles[k].gainers[i]
                 IN  (t.ticker \notin DOMAIN FloatMapOf(k) /\ ValidTicker(t)) =>
                        GappersHasIt(k, t)
            /\ \A r \in ResultRecords(k) :
                 IF r.symbol \in DOMAIN FloatMapOf(k)
                 THEN LET fd    == FloatMapOf(k)[r.symbol]
                          prevs == PreviousRecords(k, r.symbol)
                      IN  /\ fd.float # 0 => r.float = fd.float
                          /\ fd.marketCap # 0 => r.marketCap = fd.marketCap
                          /\ fd.sector # "" => r.sector = fd.sector
                          /\ fd.float = 0 =>
                               IF prevs # {} THEN \E p \in prevs : r.float = p.float
                               ELSE r.float = 0
                          /\ fd.marketCap = 0 =>
                               IF prevs # {} THEN \E p \in prevs : r.marketCap = p.marketCap
                               ELSE r.marketCap = 0
                 ELSE FallsBackToPrevious(k, r)

\* C14's case: a run whose ticker got no fundamentals keeps the float its
\* previous record had
C14_Witness ==
    \E k \in DOMAIN cycles :
        /\ cycles[k].pc = "resolved"
        /\ \E r \in ResultRecords(k) :
             /\ r.symbol \notin DOMAIN FloatMapOf(k)
             /\ r.float > 0
             /\ \E p \in PreviousRecords(k, r.symbol) : p.float = r.float

\* The valid records of the run k, in the snapshot's order: each ticker's
\* record with price > 0 and volume > 0
ValidRecords(k) ==
    LET fm == FloatMapOf(k)
        processed == [i \in DOMAIN cycles[k].gainers |->
                        LET t     == cycles[k].gainers[i]
                            prevs == PreviousRecords(k, t.ticker)
                        IN  processPolygonTicker(
                              t,
                              IF prevs = {} THEN None ELSE Some(CHOOSE p \in prevs : TRUE),
                              IF t.ticker \in DOMAIN fm THEN Some(fm[t.ticker]) ELSE None)]
    IN  SelectSeq(processed, LAMBDA x : x.price > 0 /\ x.volume > 0)

\* What C15 says of one view, valid being the valid records: the up to 25
\* records of the highest key among those over the threshold, highest first,
\* or, none being over it, the first 25 valid records as they came
ViewAsRanked(view, valid, key, above) ==
    LET over == {i \in DOMAIN valid : valid[i][key] > above}
    IN  IF over = {}
        THEN view = SubSeq(valid, 1, Min(25, Len(valid)))
        ELSE /\ Len(view) = Min(25, Cardinality(over))
             /\ \A p \in DOMAIN view : \E i \in over : valid[i] = view[p]
             /\ \A p, q \in DOMAIN view :
                  p < q => view[p][key] >= view[q][key] /\ view[p] # view[q]
             /\ \A i \in over :
                  (\A p \in DOMAIN view : view[p] # valid[i]) =>
                     valid[i][key] <= view[Len(view)][key]

\* C15: of a result of fetchScannerData, gappers (gapPercent > 4), momentum
\* (changePercent > 5) and highRvol (relative volume > 1.5) each hold, of the
\* valid records, the up to 25 of the highest key among those over the
\* threshold in descending order of the key; when none is over it, the first
\* 25 valid records in the snapshot's order.
C15_ViewsRanked ==
    \A k \in DOMAIN cycles :
        cycles[k].pc = "resolved" =>
            LET result == Get(cycles[k].result)
                valid  == ValidRecords(k)
            IN  /\ ViewAsRanked(result.gappers, valid, "gapPercent", 400)
                /\ ViewAsRanked(result.momentum, valid, "changePercent", 500)
                /\ ViewAsRanked(result.highRvol, valid, "rVol", 150)

\* C15's case: 26 valid records gap by more than 4 %, the snapshot in rising
\* order of the gap; gappers has 25 of them, the highest first
C15_Witness ==
    \E k \in DOMAIN cycles :
        /\ cycles[k].pc = "resolved"
        /\ Cardinality({i \in DOMAIN ValidRecords(k) :
                          ValidRecords(k)[i].gapPercent > 400}) = 26
        /\ Len(Get(cycles[k].result).gappers) = 25
        /\ Get(cycles[k].result).gappers[1].gapPercent
              > Get(cycles[k].result).gappers[25].gapPercent
        /\ ValidRecords(k)[1].gapPercent < ValidRecords(k)[Len(ValidRecords(k))].gapPercent

\* C16: in every result of fetchScannerData each of the three views has at
\* most 25 records, none of them with price <= 0 or volume <= 0, and is
\* non-empty exactly when the run has a valid record.
C16_ViewsBounded ==
    \A k \in DOMAIN cycles :
        cycles[k].pc = "resolved" =>
            LET result == Get(cycles[k].result)
                anyValid == \E i \in DOMAIN cycles[k].gainers :
                               ValidTicker(cycles[k].gainers[i])
            IN  \A view \in {result.gappers, result.momentum, result.highRvol} :
                    /\ Len(view) <= 25
                    /\ \A p \in DOMAIN view : view[p].price > 0 /\ view[p].volume > 0
                    /\ Len(view) > 0 <=> anyValid

\* C16's case: more than 25 tickers, some without volume, none gapping by more
\* than 4 %: gappers is 25 records long
C16_Witness ==
    \E k \in DOMAIN cycles :
        /\ cycles[k].pc = "resolved"
        /\ Len(cycles[k].gainers) > 25
        /\ \E i \in DOMAIN cycles[k].gainers : ~ValidTicker(cycles[k].gainers[i])
        /\ Len(Get(cycles[k].result).gappers) = 25
        /\ \A p \in 1..25 : Get(cycles[k].result).gappers[p].gapPercent <= 400

(***************************************************************************)
(* Properties of the App (SpecApp)                                         *)
(***************************************************************************)
\* C17: the status 'live' is never produced.  Every result fetchScannerData
\* has resolved with has the status 'delayed'; the status the App shows is
\* 'offline' or 'delayed': 'offline' as long as no cycle has ended and when
\* the cycle that ended last failed, 'delayed' when the cycle that ended last
\* succeeded.
C17_NeverLive ==
    /\ \A k \in DOMAIN cycles :
         IsSome(cycles[k].result) => Get(cycles[k].result).status = "delayed"
    /\ app.apiStatus \in {"offline", "delayed"}
    /\ app.last.fetch = 0 => app.apiStatus = "offline"
    /\ app.last.fetch # 0 =>
         app.apiStatus = IF app.last.ok THEN "delayed" ELSE "offline"

\* A cycle has succeeded, and the cycle that ended last has failed
C17_Witness ==
    /\ \E f, g \in DOMAIN app.fetches :
         /\ app.fetches[f].state = "done"
         /\ app.fetches[g].state = "failed"
    /\ app.last.fetch # 0
    /\ ~app.last.ok
    /\ app.apiStatus = "offline"

\* The step in which a fetch cycle fails: an activation of fetchData that was
\* awaiting its fetchScannerData is over, failed
CycleFails ==
    \E f \in DOMAIN app.fetches :
      /\ app.fetches[f].state = "awaiting"
      /\ app'.fetches[f].state = "failed"

\* The views of the fetchScannerData activation k, as the App holds them
CycleViews(k) == Views(Get(cycles[k].result))

\* C18: when a fetch cycle fails the App sets its status to 'offline' and
\* leaves stocks, the previous-cycle reference, the alert list, the
\* alerted-symbol set and the watchlist as they were; what is on screen is
\* then the data of a cycle that succeeded, or the initial data when none has.
C18_FailureKeepsData ==
    [][CycleFails =>
         /\ app'.apiStatus = "offline"
         /\ app'.stocks = app.stocks
         /\ app'.prevStocksRef = app.prevStocksRef
         /\ app'.alerts = app.alerts
         /\ app'.alertedSymbols = app.alertedSymbols
         /\ app'.watchlist = app.watchlist
         /\ IF \E f \in DOMAIN app.fetches : app.fetches[f].state = "done"
            THEN \E f \in DOMAIN app.fetches :
                   /\ app.fetches[f].state = "done"
                   /\ app'.stocks = [gen |-> app.fetches[f].cycle]
                                      @@ CycleViews(app.fetches[f].cycle)
            ELSE app'.stocks \in {generateMockData(d) : d \in MockDraws}]_vars

\* A cycle has failed while the App held the data and the alerts of earlier
\* cycles
C18_Witness ==
    /\ app.last.fetch # 0
    /\ ~app.last.ok
    /\ \E f \in DOMAIN app.fetches :
         /\ app.fetches[f].state = "failed"
         /\ IsSome(app.fetches[f].prevData)
    /\ app.stocks.gen # 0
    /\ app.alerts # << >>
    /\ app.alertedSymbols # {}
    /\ \E i \in DOMAIN app.watchlist : Len(app.watchlist[i].priceHistory) > 1

\* The activations of fetchData that the step has started
StartedFetches == DOMAIN app'.fetches \ DOMAIN app.fetches

\* C19: a failed cycle does not stop polling.  The step in which a cycle fails
\* leaves the 60-second interval armed as it was (and it is armed whenever the
\* App is mounted); a tick of the interval starts a new cycle, up to its
\* gainers request, and leaves the interval armed; and the step in which a
\* cycle succeeds sets the status to 'delayed' and shows that cycle's views.
C19_PollingSurvivesFailure ==
    [][/\ app.mounted => IsSome(app.interval)
       /\ CycleFails => IsSome(app'.interval) /\ app'.interval = app.interval
       /\ IntervalTick =>
            /\ IsSome(app'.interval)
            /\ \E f \in StartedFetches :
                 /\ app'.fetches[f].state = "awaiting"
                 /\ app'.fetches[f].origin = "timer"
                 /\ app'.fetches[f].cycle \in DOMAIN cycles' \ DOMAIN cycles
                 /\ cycles'[app'.fetches[f].cycle].pc = "gainers"
                 /\ lcalls'[cycles'[app'.fetches[f].cycle].lcall].state = "pending"
       /\ \A f \in DOMAIN app.fetches :
            app.fetches[f].state = "awaiting" /\ app'.fetches[f].state = "done" =>
              /\ app'.apiStatus = "delayed"
              /\ app'.stocks = [gen |-> app.fetches[f].cycle]
                                 @@ Views(Get(cycles'[app.fetches[f].cycle].result))
      ]_vars

\* After a cycle that failed, a tick of the interval has started a cycle that
\* succeeded: the status is 'delayed' again and the views are that cycle's
C19_Witness ==
    \E f, g \in DOMAIN app.fetches :
      /\ f < g
      /\ app.fetches[f].state = "failed"
      /\ app.fetches[g].state = "done"
      /\ app.fetches[g].origin = "timer"
      /\ app.last.fetch = g
      /\ app.apiStatus = "delayed"
      /\ app.stocks.gen = app.fetches[g].cycle
      /\ app.stocks.gappers # << >>

\* The symbols of the records of three views
ViewSymbols(views) == {r.symbol : r \in Range(AllStocks(views))}

\* The symbols the cycle that ended last raised a newMover alert for
NewMoverSymbols ==
    {app.last.raised[i].symbol :
       i \in {j \in DOMAIN app.last.raised : app.last.raised[j].type = "newMover"}}

\* C20: in a cycle that has a previous cycle to compare with (one has
\* succeeded before it ended: the previous-cycle reference holds its views), a
\* newMover alert is raised for a symbol exactly when the symbol is in the
\* union of the new cycle's three views, is not in the union of the previous
\* cycle's three views, and its record satisfies matchesCriteria.
C20_NewMoverExactly ==
    app.last.ok /\ app.last.compared =>
      LET new  == CycleViews(app.fetches[app.last.fetch].cycle)
          prev == Get(app.last.prev)
      IN  /\ \E f \in DOMAIN app.fetches \ {app.last.fetch} :
               /\ app.fetches[f].state = "done"
               /\ prev = CycleViews(app.fetches[f].cycle)
          /\ \A s \in ViewSymbols(new) \cup ViewSymbols(prev) \cup NewMoverSymbols :
               s \in NewMoverSymbols <=>
                 /\ s \in ViewSymbols(new)
                 /\ s \notin ViewSymbols(prev)
                 /\ \A r \in Range(AllStocks(new)) : r.symbol = s => matchesCriteria(r)

\* A cycle has raised a newMover alert for a symbol that is new to the views
\* and qualifies, the previous cycle having shown another symbol
C20_Witness ==
    /\ app.last.ok
    /\ app.last.compared
    /\ NewMoverSymbols # {}
    /\ ViewSymbols(Get(app.last.prev)) # {}
    /\ \E i \in DOMAIN app.alerts : app.alerts[i].type = "newMover"

(***************************************************************************)
(* Properties of the alerts (SpecAlerts, SpecHighlight, SpecApp)           *)
(***************************************************************************)
\* The views the cycle that ended last returned, and those it was compared with
LastNew == CycleViews(app.fetches[app.last.fetch].cycle)

LastPrev == Get(app.last.prev)

\* The symbols the cycle that ended last raised an alert of the type for
RaisedSymbols(type) ==
    {app.last.raised[i].symbol :
       i \in {j \in DOMAIN app.last.raised : app.last.raised[j].type = type}}

\* The record of the symbol in three views
RecordOf(views, symbol) == Get(FindSymbol(AllStocks(views), symbol))

\* C21: for a symbol in the views of both the previous and the new cycle, a
\* breakout alert is raised exactly when the new record's changePercent less
\* the changePercent of the symbol's record of the previous cycle is more than
\* the threshold of 3 points (percentages in hundredths).
C21_BreakoutAgainstPrevious ==
    app.last.ok /\ app.last.compared =>
      \A s \in ViewSymbols(LastNew) \cap ViewSymbols(LastPrev) :
        s \in RaisedSymbols("breakout") <=>
          RecordOf(LastNew, s).changePercent - RecordOf(LastPrev, s).changePercent
            > 100 * DEFAULT_ALERT_SETTINGS.changeThreshold

\* C22: a volumeSpike alert is raised for a symbol only in a cycle where its
\* relative volume crosses the threshold of 10 upward: the new record's rVol is
\* at least the threshold and the rVol of the symbol's record of the previous
\* cycle was below it (so that of consecutive cycles at or above the threshold
\* only the first can raise the alert).  Relative volumes in hundredths.
C22_VolumeSpikeOnCrossing ==
    app.last.ok /\ app.last.compared =>
      \A s \in RaisedSymbols("volumeSpike") :
        /\ s \in ViewSymbols(LastNew) \cap ViewSymbols(LastPrev)
        /\ RecordOf(LastNew, s).rVol >= 100 * DEFAULT_ALERT_SETTINGS.rvolThreshold
        /\ RecordOf(LastPrev, s).rVol < 100 * DEFAULT_ALERT_SETTINGS.rvolThreshold

\* C23: the alert list holds at most 30 alerts, the newest cycle's first, and
\* they are the most recently raised ones: the list is the head of all the
\* alerts raised so far, newest first, and an alert is missing from it only
\* when the list holds 30 alerts that are at least as recent.
C23_AlertsLatestThirty ==
    /\ Len(app.alerts) <= 30
    /\ Len(app.alerts) <= Len(app.log)
    /\ app.alerts = SubSeq(app.log, 1, Len(app.alerts))
    /\ \A i, j \in DOMAIN app.alerts :
         i < j => app.alerts[i].timestamp >= app.alerts[j].timestamp
    /\ \A i \in DOMAIN app.log :
         i > Len(app.alerts) =>
           /\ Len(app.alerts) = 30
           /\ \A j \in DOMAIN app.alerts :
                app.alerts[j].timestamp >= app.log[i].timestamp

\* More than 30 alerts have been raised, by cycles that ended at different
\* times; the list holds alerts of two cycles and has dropped some of the
\* older one's
C23_Witness ==
    /\ Len(app.log) > 30
    /\ Len(app.alerts) = 30
    /\ app.alerts[1].timestamp > app.alerts[30].timestamp

\* C24: every symbol a cycle's alerts put into alertedSymbols is taken out of
\* it 30 seconds after the cycle raised them, so that no symbol stays
\* highlighted forever, also when the set changes while the cycle that adds
\* the symbol is in flight: every highlighted symbol has a timeout pending
\* that will take it out, due at most 30 seconds from now.
C24_HighlightExpires ==
    \A s \in app.alertedSymbols :
      \E t \in app.timeouts :
        /\ s \in t.symbols
        /\ t.due <= now + ALERT_EXPIRY_MS

\* C25: there is no single-flight guard.  The R key starts an invocation of
\* fetchData whatever is in flight: the invocations awaiting the network go
\* on awaiting, and the new one takes as its baseline the previous-cycle
\* reference as it is then, the same any invocation started since the
\* reference was last set has taken.  And the step in which an invocation
\* succeeds sets the previous-cycle reference and the displayed views to its
\* data, whichever invocation started last.
C25_NoSingleFlight ==
    [][/\ RefreshKey =>
            \E g \in StartedFetches :
              /\ app'.fetches[g].state = "awaiting"
              /\ app'.fetches[g].prevData = app.prevStocksRef
              /\ cycles'[app'.fetches[g].cycle].prevData = app.prevStocksRef
              /\ \A f \in DOMAIN app.fetches :
                   app.fetches[f].state = "awaiting" => app'.fetches[f].state = "awaiting"
       /\ \A f \in DOMAIN app.fetches :
            app.fetches[f].state = "awaiting" /\ app'.fetches[f].state = "done" =>
              /\ app'.prevStocksRef = Some(Views(Get(cycles'[app.fetches[f].cycle].result)))
              /\ Views(app'.stocks) = Get(app'.prevStocksRef)
              /\ app'.stocks.gen = app.fetches[f].cycle
      ]_vars

\* A refresh by the R key was started while a timer-started invocation was in
\* flight, both with the same baseline; the refresh finished first, the
\* timer's invocation last, and the reference and the views are the timer's
C25_Witness ==
    \E f, g \in DOMAIN app.fetches :
      /\ f < g
      /\ app.fetches[f].origin = "timer"
      /\ app.fetches[g].origin = "key"
      /\ app.fetches[f].state = "done"
      /\ app.fetches[g].state = "done"
      /\ app.fetches[f].prevData = app.fetches[g].prevData
      /\ IsSome(app.fetches[f].prevData)
      /\ app.last.fetch = f
      /\ CycleViews(app.fetches[f].cycle) # CycleViews(app.fetches[g].cycle)
      /\ app.prevStocksRef = Some(CycleViews(app.fetches[f].cycle))
      /\ app.stocks.gen = app.fetches[f].cycle

(***************************************************************************)
(* Properties of the cache under concurrent fetches                        *)
(***************************************************************************)
\* The stored cache's entry of a symbol, if it has one
Entry(ls, symbol) ==
    LET cache == getCache(ls)
    IN  IF symbol \in DOMAIN cache.map THEN Some(cache.map[symbol]) ELSE None

\* The fetchProfile calls that resolve to a fetched record in the step
FetchedInStep ==
    { <<k, o>> \in UNION { {k} \X (bcalls'[k].outcome \ bcalls[k].outcome) : k \in DOMAIN bcalls } :
        o.kind = "fetched" }

DoneFetches == {f \in DOMAIN app.fetches : app.fetches[f].state = "done"}

\* A previous cycle as the code may use it: none, or the views a
\* fetchScannerData call returned, and never the mock data of the first render
RealBaseline(prev) ==
    /\ prev \notin {Some(Views(generateMockData(d))) : d \in MockDraws}
    /\ \/ prev = None
       \/ \E k \in DOMAIN cycles :
            IsSome(cycles[k].result) /\ prev = Some(CycleViews(k))

\* C27: the first successful cycle after mount raises no alert, whatever the
\* mock data were: alerts are raised from the second successful cycle on, and
\* the mock data are never the previous cycle, neither as the baseline given
\* to fetchScannerData nor in the comparison that raises alerts.
C27_FirstCycleSilent ==
    /\ Cardinality(DoneFetches) <= 1 => app.log = << >> /\ app.alerts = << >>
    /\ app.last.raised # << >> => app.last.compared /\ IsSome(app.last.prev)
    /\ RealBaseline(app.prevStocksRef)
    /\ RealBaseline(app.last.prev)
    /\ \A f \in DOMAIN app.fetches :
         /\ RealBaseline(app.fetches[f].prevData)
         /\ cycles[app.fetches[f].cycle].prevData = app.fetches[f].prevData

\* C27's case: two cycles have succeeded; the first, started with no baseline
\* while the mock data were on screen, raised nothing, and the second,
\* compared with the first one's views, raised every alert there is
C27_Witness ==
    \E f, g \in DoneFetches :
        /\ DoneFetches = {f, g} /\ f < g
        /\ app.fetches[f].prevData = None
        /\ AllStocks(CycleViews(app.fetches[f].cycle)) # << >>
        /\ app.last.fetch = g
        /\ app.last.prev = Some(CycleViews(app.fetches[f].cycle))
        /\ app.last.raised # << >>
        /\ app.log = app.last.raised

(***************************************************************************)
(* Properties of one cycle's alerts                                        *)
(***************************************************************************)
\* C28: within one cycle each symbol raises at most one alert of each type
\* (newMover, breakout, volumeSpike), also when the symbol is in more than
\* one of the three views, so the ids of the alerts of a cycle are pairwise
\* distinct.
C28_OneAlertPerSymbolAndType ==
    \A i, j \in DOMAIN app.last.raised :
        i # j =>
          /\ app.last.raised[i].id # app.last.raised[j].id
          /\ <<app.last.raised[i].symbol, app.last.raised[i].type>>
               # <<app.last.raised[j].symbol, app.last.raised[j].type>>

(***************************************************************************)
(* Properties of the loading flag and of what starts a cycle               *)
(***************************************************************************)
\* The activations of fetchData that await their fetchScannerData
AwaitingFetches == {f \in DOMAIN app.fetches : app.fetches[f].state = "awaiting"}

\* C29: isLoading is true in every state in which at least one cycle is in
\* flight and false when none is, also when two invocations overlap; so the
\* refresh button, disabled while isLoading, starts no cycle while another is
\* in flight.
C29_LoadingWhileInFlight ==
    [][/\ app'.isLoading <=>
            \E f \in DOMAIN app'.fetches : app'.fetches[f].state = "awaiting"
       /\ RefreshButton => AwaitingFetches = {}
      ]_vars

\* C30: a cycle is started only by the mount, by a tick of the 60-second
\* interval or by a manual refresh (R key, refresh button); selecting a row,
\* toggling the sound and a change of the alerted set start no cycle and leave
\* the interval armed as it was.
C30_OnlyMountTimerRefresh ==
    [][/\ \A g \in StartedFetches :
            app'.fetches[g].origin \in {"mount", "timer", "key", "button"}
       /\ app'.interval # app.interval =>
            \E g \in StartedFetches : app'.fetches[g].origin \in {"mount", "timer"}
       /\ SelectRow \/ Escape \/ ToggleSound \/ AlertExpiry =>
            StartedFetches = {} /\ app'.interval = app.interval
      ]_vars

====
